---- MODULE Spec2Model ----
(***************************************************************************)
(* Model of the Quintago crossword engine (septago_crossword): the fixed   *)
(* 5x5 geometry, the truth projection, init_state and the reducer, and of  *)
(* the Streamlit driver (app.py) that feeds component events to it.        *)
(*                                                                         *)
(* Representation:                                                         *)
(*   - a Cell is a pair <<r, c>>;                                          *)
(*   - a Python dict is a TLA+ function whose DOMAIN is the dict's key     *)
(*     set; an item assignment d[k] = v may add the key k (DictSet);       *)
(*   - a Python str that is parsed or normalised by the code (cell_id,     *)
(*     char, dir, a textual client_seq) is a sequence of one-character     *)
(*     strings; a stored letter is "" or a one-character string;           *)
(*   - last_action is the tag split at its first ":" ("click:bad_cell_id"  *)
(*     is <<"click", "bad_cell_id">>, "init" is <<"init">>).               *)
(***************************************************************************)
EXTENDS Integers, Sequences, FiniteSets, TLC

VARIABLES
    puzzle_id,        \* GameState.puzzle_id
    state_id,         \* GameState.state_id
    grid_letters,     \* GameState.grid_letters : Cell -> "" or letter
    given_cells,      \* GameState.given_cells
    active_cell,      \* GameState.active_cell
    active_slot,      \* GameState.active_slot
    orientation,      \* GameState.orientation ("H" or "V")
    check_marks,      \* GameState.check_marks : Cell -> "none" | "ok" | "bad"
    last_action,      \* GameState.last_action
    last_client_seq,  \* GameState.last_client_seq
    nevents,          \* number of events the reducer has been given so far
    puzzle,           \* st.session_state.puzzle: the meta.givens of the loaded puzzle
    last_event_id,    \* st.session_state.last_event_id (0 is None)
    posted,           \* the component events the frontend has posted so far
    applied,          \* the component events the driver has given to reduce, in order
    nruns,            \* number of script runs of the driver so far
    raised            \* the last script run ended in an uncaught exception

vars == <<puzzle_id, state_id, grid_letters, given_cells, active_cell, active_slot,
          orientation, check_marks, last_action, last_client_seq, nevents,
          puzzle, last_event_id, posted, applied, nruns, raised>>

\* the variables of the driver around the game state
appvars == <<puzzle, last_event_id, posted, applied, nruns, raised>>

-----------------------------------------------------------------------------
(* Bounds of the model *)

\* Longest event sequence explored.
MaxEvents == 2

\* Largest client sequence number an event carries.
MaxSeq == 2

-----------------------------------------------------------------------------
(* Generic helpers for dicts, lists and strings *)

Range(seq) == {seq[i] : i \in 1..Len(seq)}

\* d[k] = v on a dict
DictSet(d, k, v) == [x \in (DOMAIN d) \cup {k} |-> IF x = k THEN v ELSE d[x]]

\* d.get(k, default)
DictGet(d, k, default) == IF k \in DOMAIN d THEN d[k] ELSE default

\* list.index(x): 0-based index of the first occurrence (x must occur)
IndexOf(seq, x) == (CHOOSE i \in 1..Len(seq) : seq[i] = x /\ \A j \in 1..(i-1) : seq[j] # x) - 1

\* [x for x in seq if x in S]
Filter(seq, S) == SelectSeq(seq, LAMBDA x : x \in S)

AZ == {"A","B","C","D","E","F","G","H","I","J","K","L","M",
       "N","O","P","Q","R","S","T","U","V","W","X","Y","Z"}

\* str.upper() on one character
UpperChar(ch) ==
    CASE ch = "a" -> "A" [] ch = "b" -> "B" [] ch = "c" -> "C" [] ch = "d" -> "D"
      [] ch = "e" -> "E" [] ch = "f" -> "F" [] ch = "g" -> "G" [] ch = "h" -> "H"
      [] ch = "i" -> "I" [] ch = "j" -> "J" [] ch = "k" -> "K" [] ch = "l" -> "L"
      [] ch = "m" -> "M" [] ch = "n" -> "N" [] ch = "o" -> "O" [] ch = "p" -> "P"
      [] ch = "q" -> "Q" [] ch = "r" -> "R" [] ch = "s" -> "S" [] ch = "t" -> "T"
      [] ch = "u" -> "U" [] ch = "v" -> "V" [] ch = "w" -> "W" [] ch = "x" -> "X"
      [] ch = "y" -> "Y" [] ch = "z" -> "Z" [] OTHER -> ch

\* str.upper()
Upper(s) == [i \in 1..Len(s) |-> UpperChar(s[i])]

\* str.strip() (blanks only)
RECURSIVE StripLeft(_)
StripLeft(s) == IF Len(s) > 0 /\ Head(s) = " " THEN StripLeft(Tail(s)) ELSE s

RECURSIVE StripRight(_)
StripRight(s) ==
    IF Len(s) > 0 /\ s[Len(s)] = " " THEN StripRight(SubSeq(s, 1, Len(s) - 1)) ELSE s

Strip(s) == StripRight(StripLeft(s))

\* str.split(","): the list of the parts between commas
RECURSIVE SplitComma(_)
SplitComma(s) ==
    IF \E i \in 1..Len(s) : s[i] = ","
    THEN LET i == CHOOSE k \in 1..Len(s) : s[k] = "," /\ \A j \in 1..(k-1) : s[j] # ","
         IN  <<SubSeq(s, 1, i - 1)>> \o SplitComma(SubSeq(s, i + 1, Len(s)))
    ELSE <<s>>

Digits == {"0","1","2","3","4","5","6","7","8","9"}

DigitVal(ch) ==
    CASE ch = "0" -> 0 [] ch = "1" -> 1 [] ch = "2" -> 2 [] ch = "3" -> 3 [] ch = "4" -> 4
      [] ch = "5" -> 5 [] ch = "6" -> 6 [] ch = "7" -> 7 [] ch = "8" -> 8 [] ch = "9" -> 9

RECURSIVE DigitsVal(_)
DigitsVal(s) == IF Len(s) = 0 THEN 0 ELSE 10 * DigitsVal(SubSeq(s, 1, Len(s) - 1)) + DigitVal(s[Len(s)])

\* int(s) once the blanks are stripped and the sign is split off
IntOfSigned(negative, body) ==
    IF Len(body) > 0 /\ \A i \in 1..Len(body) : body[i] \in Digits
    THEN [ok |-> TRUE, val |-> IF negative THEN 0 - DigitsVal(body) ELSE DigitsVal(body)]
    ELSE [ok |-> FALSE, val |-> 0]

IntOfStripped(t) ==
    IF Len(t) > 0 /\ t[1] \in {"-", "+"} THEN IntOfSigned(t[1] = "-", Tail(t))
    ELSE IntOfSigned(FALSE, t)

\* int(s) for a str s: surrounding blanks are dropped, an optional sign, then
\* decimal digits; anything else raises ValueError (ok = FALSE).
IntOfStr(s) == IntOfStripped(Strip(s))

\* cell = (int(r), int(c)); ValueError if either does not parse
CellOfInts(r, c) ==
    IF r.ok /\ c.ok THEN [ok |-> TRUE, cell |-> <<r.val, c.val>>]
    ELSE [ok |-> FALSE, cell |-> <<0, 0>>]

\* r, c = parts: ValueError unless there are exactly two parts
CellOfParts(parts) ==
    IF Len(parts) = 2 THEN CellOfInts(IntOfStr(parts[1]), IntOfStr(parts[2]))
    ELSE [ok |-> FALSE, cell |-> <<0, 0>>]

\* r, c = cell_id.split(","); cell = (int(r), int(c)) inside try/except
ParseCellId(cell_id) == CellOfParts(SplitComma(cell_id))

-----------------------------------------------------------------------------
(* geometry.py *)

size == 5
playable_rows == {1, 3}
playable_cols == {1, 3}

\* range(size)
RangeSize == 0..(size - 1)

playable_mask == [r \in RangeSize |-> [c \in RangeSize |-> (r \in playable_rows) \/ (c \in playable_cols)]]

\* insertion order of the slots dict
SlotIds == <<"h1", "h2", "v1", "v2", "hw">>

slots ==
    [h1 |-> [i \in 1..size |-> <<1, i - 1>>],
     h2 |-> [i \in 1..size |-> <<3, i - 1>>],
     v1 |-> [i \in 1..size |-> <<i - 1, 1>>],
     v2 |-> [i \in 1..size |-> <<i - 1, 3>>],
     hw |-> << <<1, 1>>, <<1, 3>>, <<3, 3>>, <<3, 1>> >>]

\* the loop assigning cell_to_slots[cell] = [sid] instead of appending
RECURSIVE AppendSlot_overwrite(_, _, _, _)
AppendSlot_overwrite(table, sid, cells, i) ==
    IF i > Len(cells) THEN table
    ELSE AppendSlot_overwrite([x \in (DOMAIN table) \cup {cells[i]} |->
                                  IF x = cells[i] THEN <<sid>> ELSE table[x]],
                              sid, cells, i + 1)

\* for cell in cells: cell_to_slots.setdefault(cell, []).append(sid)
RECURSIVE AppendSlot(_, _, _, _)
AppendSlot(table, sid, cells, i) ==
    IF i > Len(cells) THEN table
    ELSE AppendSlot([x \in (DOMAIN table) \cup {cells[i]} |->
                        IF x = cells[i]
                        THEN Append(IF x \in DOMAIN table THEN table[x] ELSE <<>>, sid)
                        ELSE table[x]],
                    sid, cells, i + 1)

\* for sid, cells in slots.items(): ...
RECURSIVE AppendSlots(_, _, _)
AppendSlots(table, slot_map, k) ==
    IF k > Len(SlotIds) THEN table
    ELSE AppendSlots(AppendSlot(table, SlotIds[k], slot_map[SlotIds[k]], 1), slot_map, k + 1)

\* the cell_to_slots dict of the grid
CellToSlots == AppendSlots(<<>>, slots, 1)

\* cell_to_slots.get(cell, []): the slot ids listing the cell, in insertion order
cell_to_slots(cell) == IF cell \in DOMAIN CellToSlots THEN CellToSlots[cell] ELSE <<>>

slot_lengths == [sid \in Range(SlotIds) |-> Len(slots[sid])]

\* is_playable without the mask lookup
is_playable_inbounds(cell) ==
    ~(cell[1] < 0 \/ cell[2] < 0 \/ cell[1] >= size \/ cell[2] >= size)

is_playable(cell) ==
    IF cell[1] < 0 \/ cell[2] < 0 \/ cell[1] >= size \/ cell[2] >= size
    THEN FALSE
    ELSE playable_mask[cell[1]][cell[2]]

\* the cells with a true mask entry
PlayableCells == {cell \in RangeSize \X RangeSize : playable_mask[cell[1]][cell[2]]}

\* first_playable_cell scanning column by column
first_playable_cell_by_column ==
    CHOOSE cell \in PlayableCells :
        \A other \in PlayableCells :
            (cell[2] < other[2]) \/ (cell[2] = other[2] /\ cell[1] <= other[1])

\* row-major scan for the first playable cell
first_playable_cell ==
    CHOOSE cell \in PlayableCells :
        \A other \in PlayableCells :
            (cell[1] < other[1]) \/ (cell[1] = other[1] /\ cell[2] <= other[2])

-----------------------------------------------------------------------------
(* The loaded puzzle (puzzle_io.Puzzle) *)

\* The answers of the five entries, consistent on the shared cells, as
\* load_puzzle requires.
Answers ==
    [h1 |-> <<"A","B","A","B","A">>,
     h2 |-> <<"B","A","B","A","B">>,
     v1 |-> <<"A","B","B","A","B">>,
     v2 |-> <<"B","B","A","A","A">>,
     hw |-> <<"B","B","A","A">>]

\* One meta.givens item {"cell": "r,c", "letter": "X"}
GivenItem(cell_id, letter) == [is_dict |-> TRUE, cell |-> cell_id, letter |-> letter]

\* f"{r},{c}" for a cell of the grid
DigitChar(n) ==
    CASE n = 0 -> "0" [] n = 1 -> "1" [] n = 2 -> "2" [] n = 3 -> "3" [] n = 4 -> "4"
      [] n = 5 -> "5" [] n = 6 -> "6" [] n = 7 -> "7" [] n = 8 -> "8" [] n = 9 -> "9"

CellId(cell) == <<DigitChar(cell[1]), ",", DigitChar(cell[2])>>

-----------------------------------------------------------------------------
(* engine.py: truth map and init_state *)

\* the inner loop of build_truth_map: truth[cell] = entry.answer[i]
RECURSIVE ProjectEntry(_, _, _, _)
ProjectEntry(truth, cells, answer, i) ==
    IF i > Len(cells) THEN truth
    ELSE ProjectEntry(DictSet(truth, cells[i], answer[i]), cells, answer, i + 1)

RECURSIVE ProjectEntries(_, _, _)
ProjectEntries(truth, entries, k) ==
    IF k > Len(SlotIds) THEN truth
    ELSE ProjectEntries(ProjectEntry(truth, slots[SlotIds[k]], entries[SlotIds[k]], 1), entries, k + 1)

build_truth_map(entries) == ProjectEntries(<<>>, entries, 1)

Truth == build_truth_map(Answers)

\* _resolve_active_slot without the fallback to the other category
_resolve_active_slot_nofallback(cell, orient, prefer_hw) ==
    LET cslots == cell_to_slots(cell)
        h_opts == Filter(cslots, {"h1", "h2"})
        v_opts == Filter(cslots, {"v1", "v2"})
    IN  IF orient = "H" /\ Len(h_opts) > 0 THEN h_opts[1]
        ELSE IF orient = "V" /\ Len(v_opts) > 0 THEN v_opts[1]
        ELSE "h1"

\* _resolve_active_slot testing prefer_hw before the orientation
_resolve_active_slot_hw_first(cell, orient, prefer_hw) ==
    LET cslots  == cell_to_slots(cell)
        h_opts  == Filter(cslots, {"h1", "h2"})
        v_opts  == Filter(cslots, {"v1", "v2"})
        hw_opts == Filter(cslots, {"hw"})
    IN  IF prefer_hw /\ Len(hw_opts) > 0 THEN "hw"
        ELSE IF orient = "H" /\ Len(h_opts) > 0 THEN h_opts[1]
        ELSE IF orient = "V" /\ Len(v_opts) > 0 THEN v_opts[1]
        ELSE IF Len(h_opts) > 0 THEN h_opts[1]
        ELSE IF Len(v_opts) > 0 THEN v_opts[1]
        ELSE IF Len(hw_opts) > 0 THEN "hw"
        ELSE "h1"

_resolve_active_slot(cell, orient, prefer_hw) ==
    LET cslots  == cell_to_slots(cell)
        h_opts  == Filter(cslots, {"h1", "h2"})
        v_opts  == Filter(cslots, {"v1", "v2"})
        hw_opts == Filter(cslots, {"hw"})
    IN  IF orient = "H" /\ Len(h_opts) > 0 THEN h_opts[1]
        ELSE IF orient = "V" /\ Len(v_opts) > 0 THEN v_opts[1]
        ELSE IF prefer_hw /\ Len(hw_opts) > 0 THEN "hw"
        ELSE IF Len(h_opts) > 0 THEN h_opts[1]
        ELSE IF Len(v_opts) > 0 THEN v_opts[1]
        ELSE IF Len(hw_opts) > 0 THEN "hw"
        ELSE "h1"

\* the loop of init_state over meta.givens: returns the letters and the given set
RECURSIVE ApplyGivens(_, _, _, _)
ApplyGivens(letters, given, items, i) ==
    IF i > Len(items) THEN [letters |-> letters, given |-> given]
    ELSE LET item   == items[i]
             parsed == ParseCellId(item.cell)
             letter == Strip(Upper(item.letter))
         IN  IF ~item.is_dict THEN ApplyGivens(letters, given, items, i + 1)
             ELSE IF ~parsed.ok THEN ApplyGivens(letters, given, items, i + 1)
             ELSE IF parsed.cell \notin DOMAIN letters THEN ApplyGivens(letters, given, items, i + 1)
             ELSE IF ~(Len(letter) = 1 /\ letter[1] \in AZ) THEN ApplyGivens(letters, given, items, i + 1)
             ELSE ApplyGivens(DictSet(letters, parsed.cell, letter[1]),
                              given \cup {parsed.cell}, items, i + 1)

init_state(pid, givens_raw, sid) ==
    LET empty  == [cell \in PlayableCells |-> ""]
        seeded == ApplyGivens(empty, {}, givens_raw, 1)
        start  == first_playable_cell
    IN  [puzzle_id       |-> pid,
         state_id        |-> sid,
         grid_letters    |-> seeded.letters,
         given_cells     |-> seeded.given,
         active_cell     |-> start,
         active_slot     |-> _resolve_active_slot(start, "H", FALSE),
         orientation     |-> "H",
         check_marks     |-> [cell \in DOMAIN seeded.letters |-> "none"],
         last_action     |-> <<"init">>,
         last_client_seq |-> 0]

-----------------------------------------------------------------------------
(* engine.py: the reducer *)

SLOT_ORDER == <<"h1", "h2", "v1", "v2", "hw">>

\* the body of the for loop shared by check_word and check_puzzle
CheckMark(st, truth, cell) ==
    LET val == DictGet(st.grid_letters, cell, "")
    IN  IF val = "" THEN "bad"
        ELSE IF val = truth[cell] THEN "ok" ELSE "bad"

RECURSIVE CheckCells(_, _, _, _, _)
CheckCells(st, truth, marks, cells, i) ==
    IF i > Len(cells) THEN marks
    ELSE IF cells[i] \notin DOMAIN truth THEN CheckCells(st, truth, marks, cells, i + 1)
    ELSE CheckCells(st, truth, DictSet(marks, cells[i], CheckMark(st, truth, cells[i])), cells, i + 1)

\* check_word that switches an existing mark off instead of recomputing it
check_word_toggle(st, truth) ==
    LET fresh == CheckCells(st, truth, st.check_marks, slots[st.active_slot], 1)
    IN  [st EXCEPT !.check_marks =
                       [cell \in DOMAIN fresh |->
                            IF cell \in Range(slots[st.active_slot]) /\ st.check_marks[cell] # "none"
                            THEN "none" ELSE fresh[cell]],
                   !.last_action = <<"check_word">>]

\* check_word that marks every cell of the truth map
check_word_whole(st, truth) ==
    [st EXCEPT !.check_marks =
                   [cell \in (DOMAIN st.check_marks) \cup (DOMAIN truth) |->
                        IF cell \in DOMAIN truth THEN CheckMark(st, truth, cell)
                        ELSE st.check_marks[cell]],
               !.last_action = <<"check_word">>]

check_word(st, truth) ==
    [st EXCEPT !.check_marks = CheckCells(st, truth, st.check_marks, slots[st.active_slot], 1),
               !.last_action = <<"check_word">>]

\* check_puzzle that skips the cells without a letter
check_puzzle_skip_empty(st, truth) ==
    [st EXCEPT !.check_marks =
                   [cell \in (DOMAIN st.check_marks) \cup (DOMAIN truth) |->
                        IF cell \in DOMAIN truth /\ DictGet(st.grid_letters, cell, "") # ""
                        THEN CheckMark(st, truth, cell)
                        ELSE st.check_marks[cell]],
               !.last_action = <<"check_puzzle">>]

\* check_puzzle marking the cells of the active slot only
check_puzzle_active_slot(st, truth) ==
    [st EXCEPT !.check_marks =
                   [cell \in (DOMAIN st.check_marks) \cup (DOMAIN truth) |->
                        IF cell \in DOMAIN truth /\ cell \in Range(slots[st.active_slot])
                        THEN CheckMark(st, truth, cell)
                        ELSE st.check_marks[cell]],
               !.last_action = <<"check_puzzle">>]

check_puzzle(st, truth) ==
    [st EXCEPT !.check_marks =
                   [cell \in (DOMAIN st.check_marks) \cup (DOMAIN truth) |->
                        IF cell \in DOMAIN truth THEN CheckMark(st, truth, cell)
                        ELSE st.check_marks[cell]],
               !.last_action = <<"check_puzzle">>]

\* clear_checks that clears the marks of the active slot only
clear_checks_slot(st) ==
    [st EXCEPT !.check_marks =
                   [cell \in DOMAIN st.check_marks |->
                        IF cell \in Range(slots[st.active_slot]) THEN "none"
                        ELSE st.check_marks[cell]]]

clear_checks(st) ==
    [st EXCEPT !.check_marks = [cell \in DOMAIN st.check_marks |-> "none"]]

HasH(cell) == \E i \in 1..Len(cell_to_slots(cell)) : cell_to_slots(cell)[i] \in {"h1", "h2"}
HasV(cell) == \E i \in 1..Len(cell_to_slots(cell)) : cell_to_slots(cell)[i] \in {"v1", "v2"}

Flip(orient) == IF orient = "H" THEN "V" ELSE "H"

\* the click choosing the hidden word slot at the cells that belong to it
ClickTo_hidden_word(st, cell, new_orientation) ==
    [st EXCEPT !.active_cell = cell,
               !.orientation = new_orientation,
               !.active_slot = IF cell \in Range(slots["hw"]) THEN "hw"
                               ELSE _resolve_active_slot(cell, new_orientation, FALSE),
               !.last_action = <<"click">>]

\* the last two statements of _on_click_cell
ClickTo(st, cell, new_orientation) ==
    [st EXCEPT !.active_cell = cell,
               !.orientation = new_orientation,
               !.active_slot = _resolve_active_slot(cell, new_orientation, FALSE),
               !.last_action = <<"click">>]

\* _on_click_cell flipping on every repeated click, whatever the cell's slots
ClickParsed_flip_any(st, parsed) ==
    IF ~parsed.ok THEN [st EXCEPT !.last_action = <<"click", "bad_cell_id">>]
    ELSE IF ~is_playable(parsed.cell) THEN [st EXCEPT !.last_action = <<"click", "black_or_oob">>]
    ELSE ClickTo(st, parsed.cell,
                 IF parsed.cell = st.active_cell THEN Flip(st.orientation) ELSE st.orientation)

\* _on_click_cell once cell_id is parsed
ClickParsed(st, parsed) ==
    IF ~parsed.ok THEN [st EXCEPT !.last_action = <<"click", "bad_cell_id">>]
    ELSE IF ~is_playable(parsed.cell) THEN [st EXCEPT !.last_action = <<"click", "black_or_oob">>]
    ELSE ClickTo(st, parsed.cell,
                 IF parsed.cell = st.active_cell /\ HasH(parsed.cell) /\ HasV(parsed.cell)
                 THEN Flip(st.orientation) ELSE st.orientation)

\* the cell id is parsed once, then the tests of the handler read the result
_on_click_cell(st, payload) ==
    CHOOSE out \in {ClickParsed(st, parsed) : parsed \in {ParseCellId(payload.cell_id)}} : TRUE

\* _advance_within_slot wrapping around at the ends of the slot
_advance_within_slot_wrap(slot, cell, step) ==
    LET cells == slots[slot]
    IN  IF cell \notin Range(cells) THEN cells[1]
        ELSE cells[((IndexOf(cells, cell) + step) % Len(cells)) + 1]

_advance_within_slot(slot, cell, step) ==
    LET cells == slots[slot]
    IN  IF cell \notin Range(cells) THEN cells[1]
        ELSE LET nxt == IndexOf(cells, cell) + step
             IN  IF nxt < 0 \/ nxt >= Len(cells) THEN cell ELSE cells[nxt + 1]

\* _on_type_char stepping back to the previous cell of the slot after writing
_on_type_char_backwards(st, payload) ==
    LET ch == Upper(payload.char)
    IN  IF Len(ch) # 1 \/ ~(ch[1] \in AZ) THEN [st EXCEPT !.last_action = <<"type", "ignored">>]
        ELSE IF st.active_cell \in st.given_cells
             THEN [st EXCEPT !.last_action = <<"type", "on_given_ignored">>]
        ELSE LET new_state == clear_checks(
                     [st EXCEPT !.grid_letters = DictSet(st.grid_letters, st.active_cell, ch[1]),
                                !.last_action = <<"type">>])
             IN  [new_state EXCEPT
                     !.active_cell = _advance_within_slot(st.active_slot, st.active_cell, -1)]

_on_type_char(st, payload) ==
    LET ch == Upper(payload.char)
    IN  IF Len(ch) # 1 \/ ~(ch[1] \in AZ) THEN [st EXCEPT !.last_action = <<"type", "ignored">>]
        ELSE IF st.active_cell \in st.given_cells
             THEN [st EXCEPT !.last_action = <<"type", "on_given_ignored">>]
        ELSE LET new_state == clear_checks(
                     [st EXCEPT !.grid_letters = DictSet(st.grid_letters, st.active_cell, ch[1]),
                                !.last_action = <<"type">>])
             IN  [new_state EXCEPT
                     !.active_cell = _advance_within_slot(st.active_slot, st.active_cell, 1)]

\* _on_backspace without the test for a given previous cell
_on_backspace_clear_given(st) ==
    LET val       == DictGet(st.grid_letters, st.active_cell, "")
        prev_cell == _advance_within_slot(st.active_slot, st.active_cell, -1)
    IN  IF st.active_cell \in st.given_cells
        THEN [st EXCEPT !.last_action = <<"backspace", "on_given_ignored">>]
        ELSE IF val # ""
        THEN clear_checks([st EXCEPT !.grid_letters = DictSet(st.grid_letters, st.active_cell, ""),
                                     !.last_action = <<"backspace", "clear">>])
        ELSE IF prev_cell = st.active_cell
        THEN [st EXCEPT !.last_action = <<"backspace", "at_start">>]
        ELSE clear_checks([st EXCEPT !.grid_letters = DictSet(st.grid_letters, prev_cell, ""),
                                     !.active_cell = prev_cell,
                                     !.last_action = <<"backspace", "move_clear">>])

\* _on_backspace stepping back also after clearing the active cell's letter
_on_backspace_clear_moves(st) ==
    LET val       == DictGet(st.grid_letters, st.active_cell, "")
        prev_cell == _advance_within_slot(st.active_slot, st.active_cell, -1)
    IN  IF st.active_cell \in st.given_cells
        THEN [st EXCEPT !.last_action = <<"backspace", "on_given_ignored">>]
        ELSE IF val # ""
        THEN clear_checks([st EXCEPT !.grid_letters = DictSet(st.grid_letters, st.active_cell, ""),
                                     !.active_cell = prev_cell,
                                     !.last_action = <<"backspace", "clear">>])
        ELSE IF prev_cell = st.active_cell
        THEN [st EXCEPT !.last_action = <<"backspace", "at_start">>]
        ELSE IF prev_cell \in st.given_cells
        THEN [st EXCEPT !.active_cell = prev_cell, !.last_action = <<"backspace", "prev_is_given">>]
        ELSE clear_checks([st EXCEPT !.grid_letters = DictSet(st.grid_letters, prev_cell, ""),
                                     !.active_cell = prev_cell,
                                     !.last_action = <<"backspace", "move_clear">>])

_on_backspace(st) ==
    LET val       == DictGet(st.grid_letters, st.active_cell, "")
        prev_cell == _advance_within_slot(st.active_slot, st.active_cell, -1)
    IN  IF st.active_cell \in st.given_cells
        THEN [st EXCEPT !.last_action = <<"backspace", "on_given_ignored">>]
        ELSE IF val # ""
        THEN clear_checks([st EXCEPT !.grid_letters = DictSet(st.grid_letters, st.active_cell, ""),
                                     !.last_action = <<"backspace", "clear">>])
        ELSE IF prev_cell = st.active_cell
        THEN [st EXCEPT !.last_action = <<"backspace", "at_start">>]
        ELSE IF prev_cell \in st.given_cells
        THEN [st EXCEPT !.active_cell = prev_cell, !.last_action = <<"backspace", "prev_is_given">>]
        ELSE clear_checks([st EXCEPT !.grid_letters = DictSet(st.grid_letters, prev_cell, ""),
                                     !.active_cell = prev_cell,
                                     !.last_action = <<"backspace", "move_clear">>])

\* dir_ after str(...).upper()
_step_dir(dir_) ==
    IF dir_ = <<"L","E","F","T">> THEN <<0, -1, "H">>
    ELSE IF dir_ = <<"R","I","G","H","T">> THEN <<0, 1, "H">>
    ELSE IF dir_ = <<"U","P">> THEN <<-1, 0, "V">>
    ELSE IF dir_ = <<"D","O","W","N">> THEN <<1, 0, "V">>
    ELSE <<0, 0, "H">>

\* dir_.lower() for the four directions that reach the f-string
LowerDir(dir_) ==
    IF dir_ = <<"L","E","F","T">> THEN "left"
    ELSE IF dir_ = <<"R","I","G","H","T">> THEN "right"
    ELSE IF dir_ = <<"U","P">> THEN "up"
    ELSE "down"

\* the loop of _on_arrow giving up at a black cell instead of stepping over it
ArrowLoop_stop_at_black(st, dir_, r, c, dr, dc, orient, n) ==
    IF n = 0 THEN [st EXCEPT !.last_action = <<"arrow", "failed">>]
    ELSE IF r + dr < 0 \/ c + dc < 0 \/ r + dr >= size \/ c + dc >= size
              \/ ~is_playable(<<r + dr, c + dc>>)
    THEN [st EXCEPT !.orientation = orient,
                    !.active_slot = _resolve_active_slot(st.active_cell, orient, FALSE),
                    !.last_action = <<"arrow", "edge">>]
    ELSE [st EXCEPT !.active_cell = <<r + dr, c + dc>>,
                    !.orientation = orient,
                    !.active_slot = _resolve_active_slot(<<r + dr, c + dc>>, orient, FALSE),
                    !.last_action = <<"arrow", LowerDir(dir_)>>]

\* the for loop of _on_arrow, n iterations left, standing at (r, c)
RECURSIVE ArrowLoop(_, _, _, _, _, _, _, _)
ArrowLoop(st, dir_, r, c, dr, dc, orient, n) ==
    IF n = 0 THEN [st EXCEPT !.last_action = <<"arrow", "failed">>]
    ELSE LET r2 == r + dr
             c2 == c + dc
             cell == <<r2, c2>>
         IN  IF r2 < 0 \/ c2 < 0 \/ r2 >= size \/ c2 >= size
             THEN [st EXCEPT !.orientation = orient,
                             !.active_slot = _resolve_active_slot(st.active_cell, orient, FALSE),
                             !.last_action = <<"arrow", "edge">>]
             ELSE IF is_playable(cell)
             THEN [st EXCEPT !.active_cell = cell,
                             !.orientation = orient,
                             !.active_slot = _resolve_active_slot(cell, orient, FALSE),
                             !.last_action = <<"arrow", LowerDir(dir_)>>]
             ELSE ArrowLoop(st, dir_, r2, c2, dr, dc, orient, n - 1)

\* _on_arrow taking the orientation _step_dir returns for an unknown direction
_on_arrow_ignored_turns(st, payload) ==
    LET dir_ == Upper(payload.dir)
        step == _step_dir(dir_)
    IN  IF step[1] = 0 /\ step[2] = 0
        THEN [st EXCEPT !.orientation = step[3],
                        !.active_slot = _resolve_active_slot(st.active_cell, step[3], FALSE),
                        !.last_action = <<"arrow", "ignored">>]
        ELSE ArrowLoop(st, dir_, st.active_cell[1], st.active_cell[2],
                       step[1], step[2], step[3], size * size)

\* _on_arrow clearing the check marks whenever it accepts the direction
_on_arrow_clears_checks(st, payload) ==
    LET dir_ == Upper(payload.dir)
        step == _step_dir(dir_)
    IN  IF step[1] = 0 /\ step[2] = 0 THEN [st EXCEPT !.last_action = <<"arrow", "ignored">>]
        ELSE clear_checks(ArrowLoop(st, dir_, st.active_cell[1], st.active_cell[2],
                                    step[1], step[2], step[3], size * size))

_on_arrow(st, payload) ==
    LET dir_ == Upper(payload.dir)
        step == _step_dir(dir_)
    IN  IF step[1] = 0 /\ step[2] = 0 THEN [st EXCEPT !.last_action = <<"arrow", "ignored">>]
        ELSE ArrowLoop(st, dir_, st.active_cell[1], st.active_cell[2],
                       step[1], step[2], step[3], size * size)

\* _on_tab that stops at the ends of SLOT_ORDER instead of wrapping
_on_tab_nowrap(st, forward) ==
    LET idx  == IF st.active_slot \in Range(SLOT_ORDER) THEN IndexOf(SLOT_ORDER, st.active_slot) ELSE 0
        raw  == idx + (IF forward THEN 1 ELSE -1)
        nxt  == IF raw < 0 THEN 0 ELSE IF raw >= Len(SLOT_ORDER) THEN Len(SLOT_ORDER) - 1 ELSE raw
        slot == SLOT_ORDER[nxt + 1]
        orient == IF slot \in {"h1", "h2"} THEN "H"
                  ELSE IF slot \in {"v1", "v2"} THEN "V"
                  ELSE st.orientation
    IN  [st EXCEPT !.active_slot = slot,
                   !.active_cell = slots[slot][1],
                   !.orientation = orient,
                   !.last_action = <<"tab">>]

\* _on_tab leaving the orientation as it was whatever the new slot
_on_tab_keep_orientation(st, forward) ==
    LET idx  == IF st.active_slot \in Range(SLOT_ORDER) THEN IndexOf(SLOT_ORDER, st.active_slot) ELSE 0
        nxt  == (idx + (IF forward THEN 1 ELSE -1)) % Len(SLOT_ORDER)
        slot == SLOT_ORDER[nxt + 1]
    IN  [st EXCEPT !.active_slot = slot,
                   !.active_cell = slots[slot][1],
                   !.last_action = <<"tab">>]

_on_tab(st, forward) ==
    LET idx  == IF st.active_slot \in Range(SLOT_ORDER) THEN IndexOf(SLOT_ORDER, st.active_slot) ELSE 0
        nxt  == (idx + (IF forward THEN 1 ELSE -1)) % Len(SLOT_ORDER)
        slot == SLOT_ORDER[nxt + 1]
        orient == IF slot \in {"h1", "h2"} THEN "H"
                  ELSE IF slot \in {"v1", "v2"} THEN "V"
                  ELSE st.orientation
    IN  [st EXCEPT !.active_slot = slot,
                   !.active_cell = slots[slot][1],
                   !.orientation = orient,
                   !.last_action = <<"tab">>]

\* _on_toggle_orientation flipping the orientation without resolving the slot again
_on_toggle_orientation_keep_slot(st) ==
    LET cell == st.active_cell
    IN  IF ~(HasH(cell) /\ HasV(cell)) THEN [st EXCEPT !.last_action = <<"toggle", "ignored">>]
        ELSE [st EXCEPT !.orientation = Flip(st.orientation),
                        !.last_action = <<"toggle">>]

_on_toggle_orientation(st) ==
    LET cell == st.active_cell
        new_orientation == Flip(st.orientation)
    IN  IF ~(HasH(cell) /\ HasV(cell)) THEN [st EXCEPT !.last_action = <<"toggle", "ignored">>]
        ELSE [st EXCEPT !.orientation = new_orientation,
                        !.active_slot = _resolve_active_slot(cell, new_orientation, FALSE),
                        !.last_action = <<"toggle">>]

\* client_seq_int of reduce: the payload's client_seq is absent (None), an int,
\* or a str that int() parses or rejects.
ClientSeqInt(client_seq) ==
    IF client_seq.kind = "absent" THEN [some |-> FALSE, val |-> 0]
    ELSE IF client_seq.kind = "int" THEN [some |-> TRUE, val |-> client_seq.val]
    ELSE LET p == IntOfStr(client_seq.text)
         IN  IF p.ok THEN [some |-> TRUE, val |-> p.val] ELSE [some |-> FALSE, val |-> 0]

\* the tail of reduce storing the incoming client_seq, higher or not
MergeClientSeq_overwrite(out, cseq) ==
    IF cseq.some THEN [out EXCEPT !.last_client_seq = cseq.val] ELSE out

\* the tail of reduce: keep the highest client_seq seen
MergeClientSeq(out, cseq) ==
    IF cseq.some /\ cseq.val > out.last_client_seq
    THEN [out EXCEPT !.last_client_seq = cseq.val]
    ELSE out

\* reduce returning the state untouched for an unknown event type
Dispatch_unknown_silent(st, t, payload, truth) ==
    IF t = "CLICK_CELL" THEN _on_click_cell(st, payload)
    ELSE IF t = "TYPE_CHAR" THEN _on_type_char(st, payload)
    ELSE IF t = "BACKSPACE" THEN _on_backspace(st)
    ELSE IF t = "ARROW" THEN _on_arrow(st, payload)
    ELSE IF t = "TAB" THEN _on_tab(st, TRUE)
    ELSE IF t = "SHIFT_TAB" THEN _on_tab(st, FALSE)
    ELSE IF t = "TOGGLE_ORIENTATION" THEN _on_toggle_orientation(st)
    ELSE IF t = "REQUEST_CHECK_WORD" THEN check_word(st, truth)
    ELSE IF t = "REQUEST_CHECK_PUZZLE" THEN check_puzzle(st, truth)
    ELSE st

\* the if/elif chain of reduce over event.type
Dispatch(st, t, payload, truth) ==
    IF t = "CLICK_CELL" THEN _on_click_cell(st, payload)
    ELSE IF t = "TYPE_CHAR" THEN _on_type_char(st, payload)
    ELSE IF t = "BACKSPACE" THEN _on_backspace(st)
    ELSE IF t = "ARROW" THEN _on_arrow(st, payload)
    ELSE IF t = "TAB" THEN _on_tab(st, TRUE)
    ELSE IF t = "SHIFT_TAB" THEN _on_tab(st, FALSE)
    ELSE IF t = "TOGGLE_ORIENTATION" THEN _on_toggle_orientation(st)
    ELSE IF t = "REQUEST_CHECK_WORD" THEN check_word(st, truth)
    ELSE IF t = "REQUEST_CHECK_PUZZLE" THEN check_puzzle(st, truth)
    ELSE [st EXCEPT !.last_action = <<"ignored", t>>]

reduce(st, event, truth) ==
    MergeClientSeq(Dispatch(st, event.type, event.payload, truth),
                   ClientSeqInt(event.payload.client_seq))

-----------------------------------------------------------------------------
(* The session: its puzzle's givens and the events it sends to the reducer *)

\* the cells of h1, h2, v1, v2 in slot order (every playable cell occurs)
SlotCells == slots["h1"] \o slots["h2"] \o slots["v1"] \o slots["v2"]

\* meta.givens seeding every playable cell but one with its answer letter
GivensAllBut(hole) ==
    LET cells == SelectSeq(SlotCells, LAMBDA cell : cell # hole)
    IN  [i \in 1..Len(cells) |-> GivenItem(CellId(cells[i]), <<Truth[cells[i]]>>)]

\* meta.givens with well-formed and malformed items: seeds (1,1) with "B"
\* and (1,3) with "A"; the other items are skipped by init_state
MixedGivens ==
    << GivenItem(CellId(<<1, 1>>), <<"b">>),
       GivenItem(CellId(<<0, 0>>), <<"A">>),
       GivenItem(<<"9", ",", "9">>, <<"A">>),
       GivenItem(CellId(<<1, 2>>), <<"A", "B">>),
       GivenItem(<<"x">>, <<"A">>),
       [is_dict |-> FALSE, cell |-> <<>>, letter |-> <<>>],
       GivenItem(CellId(<<1, 3>>), <<" ", "a", " ">>) >>

GivensSamples == {<<>>, MixedGivens, GivensAllBut(<<1, 0>>)}

\* payload.client_seq: absent, an int, or a str
NoSeq == [kind |-> "absent", val |-> 0, text |-> <<>>]
IntSeq(n) == [kind |-> "int", val |-> n, text |-> <<>>]
StrSeq(text) == [kind |-> "str", val |-> 0, text |-> text]

ClientSeqs == {NoSeq, StrSeq(<<"x">>), IntSeq(1), IntSeq(MaxSeq)}

\* cell ids: every playable cell, two black cells, ids off the grid, ids
\* that do not parse, and a blank-padded, signed spelling of (3,1)
CellIds ==
    {CellId(cell) : cell \in PlayableCells \cup {<<0, 0>>, <<2, 2>>}}
    \cup { <<>>, <<"1", ",", "2", ",", "3">>, <<"x", ",", "1">>,
           <<"-", "1", ",", "1">>, <<"1", ",", "5">>, <<" ", "3", ",", "+", "1">> }

Chars == { <<"A">>, <<"b">>, <<>>, <<"1">>, <<"A", "B">> }

Dirs == { <<"L","E","F","T">>, <<"R","I","G","H","T">>, <<"U","P">>, <<"D","O","W","N">>,
          <<"u","p">>, <<"N","E">>, <<>> }

UnknownTypes == {"FOO", "tab"}

\* an event; a key the payload lacks reads as "" through payload.get(key, "")
GridEvent(type, cell_id, char, dir, client_seq) ==
    [type |-> type,
     payload |-> [cell_id |-> cell_id, char |-> char, dir |-> dir, client_seq |-> client_seq]]

Plain(type, client_seq) == GridEvent(type, <<>>, <<>>, <<>>, client_seq)

-----------------------------------------------------------------------------
(* The state machine *)

State ==
    [puzzle_id       |-> puzzle_id,
     state_id        |-> state_id,
     grid_letters    |-> grid_letters,
     given_cells     |-> given_cells,
     active_cell     |-> active_cell,
     active_slot     |-> active_slot,
     orientation     |-> orientation,
     check_marks     |-> check_marks,
     last_action     |-> last_action,
     last_client_seq |-> last_client_seq]

\* the session's game state becomes st
Becomes(st) ==
    /\ puzzle_id' = st.puzzle_id
    /\ state_id' = st.state_id
    /\ grid_letters' = st.grid_letters
    /\ given_cells' = st.given_cells
    /\ active_cell' = st.active_cell
    /\ active_slot' = st.active_slot
    /\ orientation' = st.orientation
    /\ check_marks' = st.check_marks
    /\ last_action' = st.last_action
    /\ last_client_seq' = st.last_client_seq

Init ==
    \E givens_raw \in GivensSamples :
        LET st == init_state("p1", givens_raw, 1)
        IN  /\ puzzle_id = st.puzzle_id
            /\ state_id = st.state_id
            /\ grid_letters = st.grid_letters
            /\ given_cells = st.given_cells
            /\ active_cell = st.active_cell
            /\ active_slot = st.active_slot
            /\ orientation = st.orientation
            /\ check_marks = st.check_marks
            /\ last_action = st.last_action
            /\ last_client_seq = st.last_client_seq
            /\ nevents = 0
            /\ puzzle = givens_raw
            /\ last_event_id = 0
            /\ posted = {}
            /\ applied = <<>>
            /\ nruns = 0
            /\ raised = FALSE

\* one call of reduce on the current state
Send(event) ==
    /\ nevents' = nevents + 1
    /\ Becomes(reduce(State, event, Truth))
    /\ UNCHANGED appvars

ClickEvents == {GridEvent("CLICK_CELL", cell_id, <<>>, <<>>, cs) : cell_id \in CellIds, cs \in ClientSeqs}
TypeEvents == {GridEvent("TYPE_CHAR", <<>>, char, <<>>, cs) : char \in Chars, cs \in ClientSeqs}
BackspaceEvents == {Plain("BACKSPACE", cs) : cs \in ClientSeqs}
ArrowEvents == {GridEvent("ARROW", <<>>, <<>>, dir, cs) : dir \in Dirs, cs \in ClientSeqs}
TabEvents == {Plain("TAB", cs) : cs \in ClientSeqs}
ShiftTabEvents == {Plain("SHIFT_TAB", cs) : cs \in ClientSeqs}
ToggleEvents == {Plain("TOGGLE_ORIENTATION", cs) : cs \in ClientSeqs}
CheckWordEvents == {Plain("REQUEST_CHECK_WORD", cs) : cs \in ClientSeqs}
CheckPuzzleEvents == {Plain("REQUEST_CHECK_PUZZLE", cs) : cs \in ClientSeqs}
UnknownEvents == {Plain(t, cs) : t \in UnknownTypes, cs \in ClientSeqs}

AllEvents ==
    ClickEvents \cup TypeEvents \cup BackspaceEvents \cup ArrowEvents \cup TabEvents
    \cup ShiftTabEvents \cup ToggleEvents \cup CheckWordEvents \cup CheckPuzzleEvents
    \cup UnknownEvents

ClickCell == \E event \in ClickEvents : nevents < MaxEvents /\ Send(event)

TypeChar == \E event \in TypeEvents : nevents < MaxEvents /\ Send(event)

Backspace == \E event \in BackspaceEvents : nevents < MaxEvents /\ Send(event)

Arrow == \E event \in ArrowEvents : nevents < MaxEvents /\ Send(event)

Tab == \E event \in TabEvents : nevents < MaxEvents /\ Send(event)

ShiftTab == \E event \in ShiftTabEvents : nevents < MaxEvents /\ Send(event)

ToggleOrientation == \E event \in ToggleEvents : nevents < MaxEvents /\ Send(event)

RequestCheckWord == \E event \in CheckWordEvents : nevents < MaxEvents /\ Send(event)

RequestCheckPuzzle == \E event \in CheckPuzzleEvents : nevents < MaxEvents /\ Send(event)

UnknownEvent == \E event \in UnknownEvents : nevents < MaxEvents /\ Send(event)

Next ==
    \/ ClickCell
    \/ TypeChar
    \/ Backspace
    \/ Arrow
    \/ Tab
    \/ ShiftTab
    \/ ToggleOrientation
    \/ RequestCheckWord
    \/ RequestCheckPuzzle
    \/ UnknownEvent

Spec == Init /\ [][Next]_vars

-----------------------------------------------------------------------------
(* app.py: the Streamlit driver.  One action of AppSpec is one run of       *)
(* main(): the sidebar buttons, then the value the grid component returns.  *)
(* The runs start once a puzzle is loaded (before that main() stops at      *)
(* st.stop() without reading the component).  uuid.uuid4() is modelled as   *)
(* a value no earlier state carries: the state ids count up.                *)

\* Longest sequence of script runs explored.
MaxRuns == 2

\* Largest number of events the frontend posts.
MaxPosted == 2

\* the puzzles the user can load, each by its meta.givens
AppPuzzles == {<<>>, MixedGivens}

\* a value crossword_grid returns: None (is_dict FALSE) or a dict with
\* schema_version, event_id (0: missing or empty), type and payload, whose
\* state_id is kept apart (0: the payload has no state_id)
ComponentEvent(schema_ok, event_id, ev_state_id, event) ==
    [is_dict |-> TRUE, schema_ok |-> schema_ok, event_id |-> event_id,
     state_id |-> ev_state_id, event |-> event]

NoEvent ==
    [is_dict |-> FALSE, schema_ok |-> FALSE, event_id |-> 0, state_id |-> 0,
     event |-> Plain("", NoSeq)]

\* st.session_state as main() reads and writes it; applied records the calls
\* of reduce made for component events
Session ==
    [game |-> State, puzzle |-> puzzle, last_event_id |-> last_event_id, applied |-> applied]

\* the stale test of main() never finding an event stale
IsStale_never(ev_state_id, cur_state_id) == FALSE

\* ev_state_id is not None and cur_state_id is not None and ev_state_id != cur_state_id
IsStale(ev_state_id, cur_state_id) ==
    ev_state_id # 0 /\ cur_state_id # 0 /\ ev_state_id # cur_state_id

\* the record of one call of reduce for a component event
Application(sess, ev) ==
    [event_id |-> ev.event_id, ev_state_id |-> ev.state_id, cur_state_id |-> sess.game.state_id]

\* "Process component event (dedupe by event_id)"
ProcessComponentEvent(sess, ev) ==
    IF ~(ev.is_dict /\ ev.schema_ok) THEN sess
    ELSE IF ~(ev.event_id # 0 /\ ev.event_id # sess.last_event_id) THEN sess
    ELSE IF IsStale(ev.state_id, sess.game.state_id)
    THEN [sess EXCEPT !.last_event_id = ev.event_id]
    ELSE [sess EXCEPT !.last_event_id = ev.event_id,
                      !.game = reduce(sess.game, ev.event, Truth),
                      !.applied = Append(sess.applied, Application(sess, ev))]

\* if load_clicked: ... ; if reset_clicked and puzzle is not None: ...
LoadOrReset(sess, button, givens_raw) ==
    IF button = "load"
    THEN [sess EXCEPT !.puzzle = givens_raw,
                      !.game = init_state("p1", givens_raw, sess.game.state_id + 1),
                      !.last_event_id = 0]
    ELSE IF button = "reset"
    THEN [sess EXCEPT !.game = init_state("p1", sess.puzzle, sess.game.state_id + 1),
                      !.last_event_id = 0]
    ELSE sess

\* "Apply check buttons"
CheckButtons(sess, button) ==
    IF button = "check_word"
    THEN [sess EXCEPT !.game = reduce(sess.game, Plain("REQUEST_CHECK_WORD", NoSeq), Truth)]
    ELSE IF button = "check_puzzle"
    THEN [sess EXCEPT !.game = reduce(sess.game, Plain("REQUEST_CHECK_PUZZLE", NoSeq), Truth)]
    ELSE sess

\* one run of main() with the clicked button (or "none") and the component's value
main(sess, button, givens_raw, ev) ==
    ProcessComponentEvent(CheckButtons(LoadOrReset(sess, button, givens_raw), button), ev)

\* the fields of the dataclass GameState, and those declared without a default
GameStateFields ==
    {"puzzle_id", "state_id", "grid_letters", "given_cells", "active_cell", "active_slot",
     "orientation", "check_marks", "last_action", "last_client_seq"}

RequiredFields == GameStateFields \ {"last_action", "last_client_seq"}

\* the exception the generated __init__ raises when a required field is missing
TypeError == [exception |-> "TypeError"]

\* GameState(**kwargs): the dataclass constructor called with keyword arguments
GameState(kwargs) ==
    IF ~(RequiredFields \subseteq DOMAIN kwargs) THEN TypeError
    ELSE [puzzle_id       |-> kwargs.puzzle_id,
          state_id        |-> kwargs.state_id,
          grid_letters    |-> kwargs.grid_letters,
          given_cells     |-> kwargs.given_cells,
          active_cell     |-> kwargs.active_cell,
          active_slot     |-> kwargs.active_slot,
          orientation     |-> kwargs.orientation,
          check_marks     |-> kwargs.check_marks,
          last_action     |-> IF "last_action" \in DOMAIN kwargs THEN kwargs.last_action
                              ELSE <<"">>,
          last_client_seq |-> IF "last_client_seq" \in DOMAIN kwargs THEN kwargs.last_client_seq
                              ELSE 0]

\* the branch of clue_button taken when its button is clicked ("Jump to slot
\* start"): the value of game_state.__class__(...)
clue_button(game_state, slot_id) ==
    GameState([puzzle_id       |-> game_state.puzzle_id,
               grid_letters    |-> game_state.grid_letters,
               given_cells     |-> game_state.given_cells,
               active_cell     |-> slots[slot_id][1],
               active_slot     |-> slot_id,
               orientation     |-> IF slot_id \in {"h1", "h2"} THEN "H"
                                   ELSE IF slot_id \in {"v1", "v2"} THEN "V"
                                   ELSE game_state.orientation,
               check_marks     |-> game_state.check_marks,
               last_action     |-> <<"jump_slot">>,
               last_client_seq |-> game_state.last_client_seq])

\* _render_clues in a run where the clue button of slot_id is clicked: the
\* session it leaves and whether the run ended in an exception
_render_clues(sess, slot_id) ==
    IF clue_button(sess.game, slot_id) = TypeError
    THEN [session |-> sess, raised |-> TRUE]
    ELSE [session |-> [sess EXCEPT !.game = clue_button(sess.game, slot_id)],
          raised |-> FALSE]

SessionIs(sess) ==
    /\ puzzle_id = sess.game.puzzle_id
    /\ state_id = sess.game.state_id
    /\ grid_letters = sess.game.grid_letters
    /\ given_cells = sess.game.given_cells
    /\ active_cell = sess.game.active_cell
    /\ active_slot = sess.game.active_slot
    /\ orientation = sess.game.orientation
    /\ check_marks = sess.game.check_marks
    /\ last_action = sess.game.last_action
    /\ last_client_seq = sess.game.last_client_seq
    /\ puzzle = sess.puzzle
    /\ last_event_id = sess.last_event_id
    /\ applied = sess.applied

SessionBecomes(sess) ==
    /\ Becomes(sess.game)
    /\ puzzle' = sess.puzzle
    /\ last_event_id' = sess.last_event_id
    /\ applied' = sess.applied

\* what crossword_grid can return in a run: nothing, or any event posted so
\* far (the component's value is re-delivered on every rerun, and the channel
\* may deliver late and out of order)
ComponentValues == posted \cup {NoEvent}

Run(button, givens_raw, ev) ==
    /\ nruns' = nruns + 1
    /\ SessionBecomes(main(Session, button, givens_raw, ev))
    /\ raised' = FALSE
    /\ UNCHANGED <<posted, nevents>>

\* what the frontend posts: an event, with or without an event_id, with or
\* without the state_id of the props it shows, under its schema_version or a
\* foreign one
Postings ==
    { [event |-> GridEvent("TYPE_CHAR", <<>>, <<"A">>, <<>>, NoSeq),
       schema_ok |-> TRUE, has_id |-> TRUE, has_state_id |-> TRUE],
      [event |-> Plain("TAB", NoSeq), schema_ok |-> TRUE, has_id |-> TRUE, has_state_id |-> FALSE],
      [event |-> Plain("TAB", NoSeq), schema_ok |-> TRUE, has_id |-> FALSE, has_state_id |-> TRUE],
      [event |-> Plain("TAB", NoSeq), schema_ok |-> FALSE, has_id |-> TRUE, has_state_id |-> TRUE] }

\* the frontend posts an event; its event_id is new
FrontendPost ==
    \E p \in Postings :
        /\ Cardinality(posted) < MaxPosted
        /\ posted' = posted \cup
               { ComponentEvent(p.schema_ok,
                                IF p.has_id THEN Cardinality(posted) + 1 ELSE 0,
                                IF p.has_state_id THEN state_id ELSE 0,
                                p.event) }
        /\ UNCHANGED <<puzzle_id, state_id, grid_letters, given_cells, active_cell,
                       active_slot, orientation, check_marks, last_action,
                       last_client_seq, nevents, puzzle, last_event_id, applied, nruns,
                       raised>>

AppLoad ==
    \E givens_raw \in AppPuzzles : \E ev \in ComponentValues :
        nruns < MaxRuns /\ Run("load", givens_raw, ev)

AppReset == \E ev \in ComponentValues : nruns < MaxRuns /\ Run("reset", puzzle, ev)

AppCheckWord == \E ev \in ComponentValues : nruns < MaxRuns /\ Run("check_word", puzzle, ev)

AppCheckPuzzle == \E ev \in ComponentValues : nruns < MaxRuns /\ Run("check_puzzle", puzzle, ev)

AppRerun == \E ev \in ComponentValues : nruns < MaxRuns /\ Run("none", puzzle, ev)

\* a script run in which a clue button is clicked: the component's value is
\* processed first, then _render_clues runs the button's branch
AppClueButton ==
    \E slot_id \in Range(SLOT_ORDER) : \E ev \in ComponentValues :
        /\ nruns < MaxRuns
        /\ nruns' = nruns + 1
        /\ SessionBecomes(_render_clues(main(Session, "none", puzzle, ev), slot_id).session)
        /\ raised' = _render_clues(main(Session, "none", puzzle, ev), slot_id).raised
        /\ UNCHANGED <<posted, nevents>>

AppNext ==
    \/ FrontendPost
    \/ AppLoad
    \/ AppReset
    \/ AppCheckWord
    \/ AppCheckPuzzle
    \/ AppRerun
    \/ AppClueButton

\* the session after the first load of a puzzle
AppInit ==
    \E givens_raw \in AppPuzzles :
        /\ SessionIs([game |-> init_state("p1", givens_raw, 1), puzzle |-> givens_raw,
                      last_event_id |-> 0, applied |-> <<>>])
        /\ posted = {}
        /\ nruns = 0
        /\ raised = FALSE
        /\ nevents = 0

AppSpec == AppInit /\ [][AppNext]_vars

-----------------------------------------------------------------------------
(* A player solving a puzzle that has no given cells, through reduce alone:  *)
(* the player types the truth letter wherever the focus stands on a cell     *)
(* that does not hold it yet, and otherwise clicks the first or the last     *)
(* such cell in row-major order.                                             *)

\* the playable cells that do not hold their truth letter
WrongCells == {cell \in PlayableCells : DictGet(grid_letters, cell, "") # Truth[cell]}

RowMajor(cell) == cell[1] * size + cell[2]

FirstWrong == CHOOSE cell \in WrongCells : \A other \in WrongCells : RowMajor(cell) <= RowMajor(other)

LastWrong == CHOOSE cell \in WrongCells : \A other \in WrongCells : RowMajor(cell) >= RowMajor(other)

\* one call of reduce by the solving player
SolveSend(event) ==
    /\ nevents' = nevents + 1
    /\ \E out \in {reduce(State, event, Truth)} : Becomes(out)
    /\ UNCHANGED appvars

SolveType ==
    /\ active_cell \in WrongCells
    /\ SolveSend(GridEvent("TYPE_CHAR", <<>>, <<Truth[active_cell]>>, <<>>, NoSeq))

SolveClick ==
    /\ active_cell \notin WrongCells
    /\ WrongCells # {}
    /\ \E cell \in {FirstWrong, LastWrong} :
           SolveSend(GridEvent("CLICK_CELL", CellId(cell), <<>>, <<>>, NoSeq))

SolveNext ==
    \/ SolveType
    \/ SolveClick

SolveInit ==
    /\ SessionIs([game |-> init_state("p1", <<>>, 1), puzzle |-> <<>>,
                  last_event_id |-> 0, applied |-> <<>>])
    /\ posted = {}
    /\ nruns = 0
    /\ raised = FALSE
    /\ nevents = 0

\* the player keeps playing while a move is left
SolveSpec == SolveInit /\ [][SolveNext]_vars /\ WF_vars(SolveNext)

-----------------------------------------------------------------------------
(* Properties.  The reducer is a pure function, so a property of "the state *)
(* after event e" is stated on reduce(State, e, Truth) for every reachable  *)
(* State.                                                                   *)

After(event) == reduce(State, event, Truth)

\* the session still sends events from this state
Sending == nevents < MaxEvents

Max(a, b) == IF a >= b THEN a ELSE b

\* the client_seq values tried from the current state: all of them while the
\* session still sends events, none beyond that
SeqsHere == IF Sending THEN ClientSeqs ELSE {NoSeq}

\* one event of each type, well formed and not, with every client_seq
ProbeEvents ==
    {GridEvent(probe[1], probe[2], probe[3], probe[4], cs) :
         probe \in { <<"CLICK_CELL", <<"1", ",", "1">>, <<>>, <<>> >>,
                     <<"CLICK_CELL", <<"x">>, <<>>, <<>> >>,
                     <<"TYPE_CHAR", <<>>, <<"A">>, <<>> >>,
                     <<"TYPE_CHAR", <<>>, <<>>, <<>> >>,
                     <<"BACKSPACE", <<>>, <<>>, <<>> >>,
                     <<"ARROW", <<>>, <<>>, <<"D","O","W","N">> >>,
                     <<"TAB", <<>>, <<>>, <<>> >>,
                     <<"SHIFT_TAB", <<>>, <<>>, <<>> >>,
                     <<"TOGGLE_ORIENTATION", <<>>, <<>>, <<>> >>,
                     <<"REQUEST_CHECK_WORD", <<>>, <<>>, <<>> >>,
                     <<"REQUEST_CHECK_PUZZLE", <<>>, <<>>, <<>> >>,
                     <<"FOO", <<>>, <<>>, <<>> >> },
         cs \in ClientSeqs}

\* C1: in every reachable state the key sets of grid_letters and of
\* check_marks are exactly the 16 playable cells.
C1_DomainsArePlayableCells ==
    /\ Cardinality(PlayableCells) = 16
    /\ DOMAIN grid_letters = PlayableCells
    /\ DOMAIN check_marks = PlayableCells

\* a state reached by typing a letter and then sending an unknown event
C1_Witness ==
    /\ last_action = <<"ignored", "FOO">>
    /\ \E cell \in PlayableCells \ given_cells : grid_letters[cell] # ""

\* C2: no step of the reducer changes the letter stored at a given cell.
C2_GivenLettersNeverChange ==
    [][\A cell \in given_cells :
           cell \in DOMAIN grid_letters' /\ grid_letters'[cell] = grid_letters[cell]]_vars

\* BACKSPACE from an empty cell has just moved the focus onto a given cell
C2_Witness ==
    /\ last_action = <<"backspace", "prev_is_given">>
    /\ active_cell \in given_cells
    /\ grid_letters[active_cell] # ""

\* C3: the active cell is playable and lies in the active slot.
C3_ActiveCellInActiveSlot ==
    /\ active_cell \in RangeSize \X RangeSize
    /\ playable_mask[active_cell[1]][active_cell[2]]
    /\ active_cell \in Range(slots[active_slot])

\* TAB has made the hidden-word slot active, with the focus on its first cell
C3_Witness ==
    /\ active_slot = "hw"
    /\ active_cell = <<1, 1>>
    /\ last_action = <<"tab">>

\* C4: the output's last_client_seq is max(input's, event's) for an integer
\* client_seq and the input's when client_seq is absent or not numeric; it
\* never decreases (for every event from an initial state and for one event of
\* each type from the later states).
C4_ClientSeqIsMax ==
    Sending =>
    \A event \in (IF nevents = 0 THEN AllEvents ELSE ProbeEvents) :
        LET cs  == event.payload.client_seq
            new == After(event).last_client_seq
        IN  /\ cs.kind = "int" => new = Max(last_client_seq, cs.val)
            /\ cs.kind = "absent" => new = last_client_seq
            /\ (cs.kind = "str" /\ cs.text = <<"x">>) => new = last_client_seq
            /\ new >= last_client_seq

\* an event numbered 1 arrives after the counter reached 2 and leaves it at 2
C4_Witness ==
    /\ Sending
    /\ last_client_seq = 2
    /\ After(Plain("TAB", IntSeq(1))).last_client_seq = 2
    /\ After(Plain("TAB", IntSeq(1))).active_slot # active_slot

\* the single letter a TYPE_CHAR payload carries, if it carries one
IsOneLetter(char) == Len(char) = 1 /\ UpperChar(char[1]) \in AZ

\* the cell before the active cell in the active slot's order, if there is one
HasPredecessor == active_cell # slots[active_slot][1]
Predecessor ==
    LET cells == slots[active_slot]
        i == CHOOSE k \in 1..Len(cells) : cells[k] = active_cell
    IN  cells[i - 1]

\* the edits that write or clear a letter
EditWrites(event) ==
    \/ /\ event.type = "TYPE_CHAR"
       /\ IsOneLetter(event.payload.char)
       /\ active_cell \notin given_cells
    \/ /\ event.type = "BACKSPACE"
       /\ active_cell \notin given_cells
       /\ \/ grid_letters[active_cell] # ""
          \/ HasPredecessor /\ Predecessor \notin given_cells

Verdict(letters, cell) == IF letters[cell] = Truth[cell] THEN "ok" ELSE "bad"

\* C6: REQUEST_CHECK_PUZZLE marks each playable cell "ok" exactly when its
\* letter is its truth letter and "bad" otherwise (an empty cell is "bad"); a
\* grid holding the truth letters is all "ok", and a grid differing from it in
\* one cell has exactly that cell "bad".
C6_CheckPuzzleMarksEveryCell ==
    \A event \in {Plain("REQUEST_CHECK_PUZZLE", cs) : cs \in SeqsHere} :
        LET marks == After(event).check_marks
            wrong == {cell \in PlayableCells : grid_letters[cell] # Truth[cell]}
        IN  /\ \A cell \in PlayableCells : Truth[cell] # ""
            /\ \A cell \in PlayableCells : marks[cell] = Verdict(grid_letters, cell)
            /\ \A cell \in PlayableCells : grid_letters[cell] = "" => marks[cell] = "bad"
            /\ wrong = {} => \A cell \in PlayableCells : marks[cell] = "ok"
            /\ \A cell \in PlayableCells :
                   wrong = {cell} => \A other \in PlayableCells : (marks[other] = "bad") <=> (other = cell)

\* the last letter of the solution was typed and the puzzle check reports
\* every cell "ok"
C6_Witness ==
    /\ last_action = <<"type">>
    /\ \A cell \in PlayableCells : grid_letters[cell] = Truth[cell]
    /\ \A cell \in PlayableCells : check_marks[cell] = "none"
    /\ LET marks == After(Plain("REQUEST_CHECK_PUZZLE", NoSeq)).check_marks
       IN  \A cell \in PlayableCells : marks[cell] = "ok"

\* C7: REQUEST_CHECK_WORD marks each cell of the active slot "ok" or "bad" by
\* its letter and changes no mark outside the active slot, no letter, and
\* neither the active cell, the active slot nor the orientation.
C7_CheckWordMarksActiveSlotOnly ==
    \A event \in {Plain("REQUEST_CHECK_WORD", cs) : cs \in SeqsHere} :
        LET out == After(event)
            in_slot == Range(slots[active_slot])
        IN  /\ \A cell \in in_slot : out.check_marks[cell] = Verdict(grid_letters, cell)
            /\ \A cell \in PlayableCells \ in_slot : out.check_marks[cell] = check_marks[cell]
            /\ out.grid_letters = grid_letters
            /\ out.active_cell = active_cell
            /\ out.active_slot = active_slot
            /\ out.orientation = orientation

\* the last missing letter of the across slot h1 was typed; the word check
\* marks all of h1 "ok" and no cell outside h1
C7_Witness ==
    /\ last_action = <<"type">>
    /\ active_slot = "h1"
    /\ <<1, 0>> \notin given_cells
    /\ LET marks == After(Plain("REQUEST_CHECK_WORD", NoSeq)).check_marks
       IN  /\ \A cell \in Range(slots["h1"]) : marks[cell] = "ok"
           /\ \A cell \in PlayableCells \ Range(slots["h1"]) : marks[cell] = "none"

\* C8: REQUEST_CHECK_WORD twice in a row gives the check_marks of giving it once.
C8_CheckWordIdempotent ==
    \A event \in {Plain("REQUEST_CHECK_WORD", cs) : cs \in SeqsHere} :
        reduce(After(event), event, Truth).check_marks = After(event).check_marks

\* a word check has just marked some cells "ok" and some "bad"
C8_Witness ==
    /\ last_action = <<"check_word">>
    /\ \E cell \in Range(slots[active_slot]) : check_marks[cell] = "ok"
    /\ \E cell \in Range(slots[active_slot]) : check_marks[cell] = "bad"

\* the slot order the claim names, and a slot's 0-based index in it
TabOrder == <<"h1", "h2", "v1", "v2", "hw">>
TabIndex(slot) == (CHOOSE k \in 1..Len(TabOrder) : TabOrder[k] = slot) - 1

RECURSIVE Repeat(_, _, _)
Repeat(st, event, n) == IF n = 0 THEN st ELSE Repeat(reduce(st, event, Truth), event, n - 1)

\* C9: TAB moves the active slot from index i to (i+1) mod 5 of
\* [h1, h2, v1, v2, hw] and SHIFT_TAB to (i-1) mod 5; five TABs, or a TAB and
\* then a SHIFT_TAB, come back to the active slot.
C9_TabCyclesSlots ==
    LET i == TabIndex(active_slot)
    IN  /\ \A event \in {Plain("TAB", cs) : cs \in SeqsHere} :
               LET slot == After(event).active_slot
               IN  /\ slot = TabOrder[((i + 1) % 5) + 1]
                   /\ active_slot = "hw" => slot = "h1"
        /\ \A event \in {Plain("SHIFT_TAB", cs) : cs \in SeqsHere} :
               LET slot == After(event).active_slot
               IN  /\ slot = TabOrder[((i + 4) % 5) + 1]
                   /\ active_slot = "h1" => slot = "hw"
        /\ Repeat(State, Plain("TAB", NoSeq), 5).active_slot = active_slot
        /\ reduce(After(Plain("TAB", NoSeq)), Plain("SHIFT_TAB", NoSeq), Truth).active_slot = active_slot

\* two TABs have reached hw and one more TAB wraps to h1
C9_Witness ==
    /\ active_slot = "hw"
    /\ last_action = <<"tab">>
    /\ After(Plain("TAB", NoSeq)).active_slot = "h1"
    /\ After(Plain("TAB", NoSeq)).active_cell = <<1, 0>>

\* the cell lies in an across slot and in a down slot
InAcrossAndDown(cell) ==
    /\ cell \in Range(slots["h1"]) \cup Range(slots["h2"])
    /\ cell \in Range(slots["v1"]) \cup Range(slots["v2"])

Click(cell, cs) == GridEvent("CLICK_CELL", CellId(cell), <<>>, <<>>, cs)

\* C10: CLICK_CELL on a playable cell flips the orientation exactly when the
\* cell is the active cell and lies in an across and a down slot; the clicked
\* cell becomes active and the active slot is the resolution of the cell and
\* the resulting orientation; clicking an intersection cell again flips the
\* orientation again and alternates the active slot between its across and its
\* down slot.
C10_ClickFlipsOnlyOnActiveIntersection ==
    Sending =>
    \A cell \in PlayableCells :
        LET out   == After(Click(cell, NoSeq))
            again == reduce(out, Click(cell, NoSeq), Truth)
            flips == cell = active_cell /\ InAcrossAndDown(cell)
        IN  /\ out.orientation = (IF flips THEN Flip(orientation) ELSE orientation)
            /\ out.active_cell = cell
            /\ out.active_slot = _resolve_active_slot(cell, out.orientation, FALSE)
            /\ InAcrossAndDown(cell) =>
                   /\ again.orientation = Flip(out.orientation)
                   /\ again.active_cell = cell
                   /\ (out.orientation = "H") <=> (out.active_slot \in {"h1", "h2"})
                   /\ (out.orientation = "V") <=> (out.active_slot \in {"v1", "v2"})
                   /\ (again.orientation = "H") <=> (again.active_slot \in {"h1", "h2"})
                   /\ (again.orientation = "V") <=> (again.active_slot \in {"v1", "v2"})
                   /\ cell \in Range(slots[out.active_slot]) \cap Range(slots[again.active_slot])

\* the intersection (1,1) was clicked from another cell, keeping across; a
\* second click on it turns to down and the slot to v1
C10_Witness ==
    /\ Sending
    /\ last_action = <<"click">>
    /\ active_cell = <<1, 1>>
    /\ orientation = "H"
    /\ active_slot = "h1"
    /\ After(Click(<<1, 1>>, NoSeq)).orientation = "V"
    /\ After(Click(<<1, 1>>, NoSeq)).active_slot = "v1"

-----------------------------------------------------------------------------
(* Malformed and unrecognized events *)

\* cell ids that name no playable cell: black cells, cells off the grid, and
\* texts that are not two integers separated by one comma
BadCellIds ==
    { CellId(<<0, 0>>), CellId(<<2, 2>>), CellId(<<4, 4>>),
      <<>>, <<"1", ",", "2", ",", "3">>, <<"x", ",", "1">>, <<"1", ";", "1">>,
      <<"1", ".", "0", ",", "1">>, <<"1", ",">>,
      <<"-", "1", ",", "1">>, <<"1", ",", "5">>, <<"5", ",", "0">> }

\* chars that are not one letter
BadChars == { <<>>, <<"1">>, <<" ">>, <<"A", "B">>, <<"a", "b">> }

\* directions that are none of LEFT, RIGHT, UP, DOWN
BadDirs == { <<>>, <<"N", "E">>, <<"L", "E", "F", "T", " ">> }

MalformedClicks == {GridEvent("CLICK_CELL", cell_id, <<>>, <<>>, cs) : cell_id \in BadCellIds, cs \in ClientSeqs}
MalformedTypes == {GridEvent("TYPE_CHAR", <<>>, char, <<>>, cs) : char \in BadChars, cs \in ClientSeqs}
MalformedArrows == {GridEvent("ARROW", <<>>, <<>>, dir, cs) : dir \in BadDirs, cs \in ClientSeqs}

MalformedEvents == MalformedClicks \cup MalformedTypes \cup MalformedArrows \cup UnknownEvents

\* out is a game state of the puzzle
IsGameState(out) ==
    /\ DOMAIN out = DOMAIN State
    /\ DOMAIN out.grid_letters = PlayableCells
    /\ DOMAIN out.check_marks = PlayableCells
    /\ \A cell \in PlayableCells :
           /\ out.grid_letters[cell] \in AZ \cup {""}
           /\ out.check_marks[cell] \in {"none", "ok", "bad"}
    /\ out.given_cells \subseteq PlayableCells
    /\ out.active_cell \in PlayableCells
    /\ out.active_slot \in Range(SlotIds)
    /\ out.orientation \in {"H", "V"}
    /\ Len(out.last_action) \in {1, 2}
    /\ out.last_client_seq \in Nat

\* out is the current state in every field but last_action and last_client_seq
SameButActionAndSeq(out) ==
    /\ out.puzzle_id = puzzle_id
    /\ out.state_id = state_id
    /\ out.grid_letters = grid_letters
    /\ out.given_cells = given_cells
    /\ out.active_cell = active_cell
    /\ out.active_slot = active_slot
    /\ out.orientation = orientation
    /\ out.check_marks = check_marks

\* C11: the reducer returns a game state for every event (every state reached
\* is one), and for a CLICK_CELL whose cell id is unparseable, off the grid or
\* black, a TYPE_CHAR whose char is not one letter, an ARROW whose direction is
\* none of the four, and an unknown event type, the output is a game state
\* that equals the input in every field except last_action and
\* last_client_seq.
C11_MalformedEventIsNoOp ==
    /\ IsGameState(State)
    /\ Sending =>
           \A event \in MalformedEvents :
               /\ IsGameState(After(event))
               /\ SameButActionAndSeq(After(event))

\* after a TAB set the orientation to down, an ARROW with the direction "NE"
\* changes the tag and the counter only
C11_Witness ==
    /\ Sending
    /\ orientation = "V"
    /\ last_action = <<"tab">>
    /\ After(GridEvent("ARROW", <<>>, <<>>, <<"N", "E">>, IntSeq(1)))
           = [State EXCEPT !.last_action = <<"arrow", "ignored">>, !.last_client_seq = 1]

\* cell ids that are not two integers separated by one comma
UnparseableCellIds ==
    { <<>>, <<"1", ",", "2", ",", "3">>, <<"x", ",", "1">>, <<"1", ";", "1">>,
      <<"1", ".", "0", ",", "1">>, <<"1", ",">> }

UnparseableClicks ==
    {GridEvent("CLICK_CELL", cell_id, <<>>, <<>>, cs) : cell_id \in UnparseableCellIds, cs \in ClientSeqs}

\* the tag is "ignored:<reason>"
BeginsWithIgnored(tag) == Len(tag) = 2 /\ tag[1] = "ignored"

C13_InitialState ==
    last_action = <<"init">> =>
        /\ active_cell = <<0, 1>>
        /\ \A cell \in PlayableCells :
               (active_cell[1] < cell[1]) \/ (active_cell[1] = cell[1] /\ active_cell[2] <= cell[2])
        /\ orientation = "H"
        /\ active_slot = "v1"
        /\ \A sid \in Range(SlotIds) : (active_cell \in Range(slots[sid])) <=> (sid = "v1")
        /\ \A cell \in PlayableCells : check_marks[cell] = "none"
        /\ \A cell \in PlayableCells \ given_cells : grid_letters[cell] = ""
        /\ last_client_seq = 0

\* an initial state whose puzzle seeds two given cells
C13_Witness ==
    /\ last_action = <<"init">>
    /\ nevents = 0
    /\ given_cells = {<<1, 1>>, <<1, 3>>}
    /\ grid_letters[<<1, 1>>] = "B"
    /\ active_slot = "v1"

\* the slots of a category that contain the cell
AcrossSlotsOf(cell) == {sid \in {"h1", "h2"} : cell \in Range(slots[sid])}
DownSlotsOf(cell) == {sid \in {"v1", "v2"} : cell \in Range(slots[sid])}
SlotsOf(cell) == {sid \in Range(SlotIds) : cell \in Range(slots[sid])}

\* what the claim requires of the slot resolved for (cell, orient, prefer_hw)
ResolvesWell(cell, orient, prefer_hw) ==
    LET slot == _resolve_active_slot(cell, orient, prefer_hw)
    IN  /\ slot \in Range(SlotIds)
        /\ cell \in Range(slots[slot])
        /\ (orient = "H" /\ AcrossSlotsOf(cell) # {}) => AcrossSlotsOf(cell) = {slot}
        /\ (orient = "V" /\ DownSlotsOf(cell) # {}) => DownSlotsOf(cell) = {slot}
        /\ Cardinality(SlotsOf(cell)) = 1 => SlotsOf(cell) = {slot}

\* the requirement for every playable cell, orientation and prefer_hw
ResolvesWellEverywhere ==
    \A cell \in PlayableCells : \A orient \in {"H", "V"} : \A prefer_hw \in BOOLEAN :
        ResolvesWell(cell, orient, prefer_hw)

\* C14: for every playable cell, either orientation and either prefer_hw the
\* resolution returns one slot containing the cell, the cell's across slot for
\* across and its down slot for down when it has one, and the only slot of a
\* cell that has one slot; the active slot of a state whose focus was placed by
\* an accepted click, arrow or toggle is the resolution for its cell and
\* orientation.
C14_ResolutionIsTotal ==
    /\ ResolvesWellEverywhere
    /\ last_action \in {<<"click">>, <<"toggle">>}
                          \cup {<<"arrow", how>> : how \in {"left", "right", "up", "down", "edge"}} =>
           /\ active_slot = _resolve_active_slot(active_cell, orientation, FALSE)
           /\ ResolvesWell(active_cell, orientation, FALSE)

\* a click on (4,3), which lies in v2 only, while the orientation is across
C14_Witness ==
    /\ last_action = <<"click">>
    /\ active_cell = <<4, 3>>
    /\ orientation = "H"
    /\ active_slot = "v2"
    /\ _resolve_active_slot(<<1, 1>>, "V", TRUE) = "v1"

\* cells on and around the grid
NearCells == (-1..size) \X (-1..size)

\* the geometry build_grid_spec returns
GeometryIsSound ==
    /\ PlayableCells = {cell \in RangeSize \X RangeSize : cell[1] \in {1, 3} \/ cell[2] \in {1, 3}}
    /\ \A cell \in NearCells : is_playable(cell) <=> cell \in PlayableCells
    /\ DOMAIN slots = {"h1", "h2", "v1", "v2", "hw"}
    /\ \A sid \in DOMAIN slots :
           /\ Cardinality(Range(slots[sid])) = Len(slots[sid])
           /\ Range(slots[sid]) \subseteq RangeSize \X RangeSize
           /\ Range(slots[sid]) \subseteq PlayableCells
           /\ slot_lengths[sid] = Len(slots[sid])
    /\ \A cell \in NearCells : \A sid \in DOMAIN slots :
           (\E i \in 1..Len(cell_to_slots(cell)) : cell_to_slots(cell)[i] = sid)
               <=> (cell \in Range(slots[sid]))
    /\ \A cell \in NearCells :
           Cardinality(Range(cell_to_slots(cell))) = Len(cell_to_slots(cell))
    /\ \A cell \in PlayableCells : Len(cell_to_slots(cell)) >= 1
    /\ slots["hw"] = << <<1, 1>>, <<1, 3>>, <<3, 3>>, <<3, 1>> >>
    /\ Range(slots["hw"]) = {1, 3} \X {1, 3}

\* C17: the playable cells are the cells of rows 1, 3 and columns 1, 3; each
\* of the five slots is a list of distinct, in-bounds, playable cells;
\* cell_to_slots lists s for c exactly when c is in slots[s]; every playable
\* cell is in a slot; hw is (1,1), (1,3), (3,3), (3,1); and the active slot is
\* listed for the active cell.
C17_GeometryInvariants ==
    /\ GeometryIsSound
    /\ \E i \in 1..Len(cell_to_slots(active_cell)) : cell_to_slots(active_cell)[i] = active_slot

\* the focus is on the intersection (1,1) in the hidden word, which
\* cell_to_slots lists after h1 and v1, and typing moves clockwise to (1,3)
C17_Witness ==
    /\ active_slot = "hw"
    /\ active_cell = <<1, 1>>
    /\ cell_to_slots(active_cell) = <<"h1", "v1", "hw">>
    /\ <<1, 1>> \notin given_cells
    /\ After(GridEvent("TYPE_CHAR", <<>>, <<"A">>, <<>>, NoSeq)).active_cell = <<1, 3>>

\* the four directions, each with its unit step and the orientation it implies;
\* the spelling of dir is read without regard to case
Directions ==
    { [dir |-> <<"L","E","F","T">>,     dr |-> 0,  dc |-> -1, orient |-> "H"],
      [dir |-> <<"R","I","G","H","T">>, dr |-> 0,  dc |-> 1,  orient |-> "H"],
      [dir |-> <<"U","P">>,             dr |-> -1, dc |-> 0,  orient |-> "V"],
      [dir |-> <<"D","O","W","N">>,     dr |-> 1,  dc |-> 0,  orient |-> "V"],
      [dir |-> <<"u","p">>,             dr |-> -1, dc |-> 0,  orient |-> "V"] }

\* the numbers of steps from cell in direction d that land on a playable cell
StepsToPlayable(cell, d) ==
    {k \in 1..size : <<cell[1] + k * d.dr, cell[2] + k * d.dc>> \in PlayableCells}

\* the nearest playable cell from cell in direction d (there is one)
NearestPlayable(cell, d) ==
    LET k == CHOOSE n \in StepsToPlayable(cell, d) : \A m \in StepsToPlayable(cell, d) : n <= m
    IN  <<cell[1] + k * d.dr, cell[2] + k * d.dc>>

\* C18: an ARROW with one of the four directions never ends "arrow:failed"; if
\* a playable cell lies ahead, the active cell becomes the nearest one, else it
\* stays and last_action is "arrow:edge"; either way the orientation becomes
\* the one the direction implies and the active slot the resolution of the
\* resulting active cell for it.
C18_ArrowMovesOrStopsAtEdge ==
    Sending =>
    \A d \in Directions : \A cs \in ClientSeqs :
        LET out == After(GridEvent("ARROW", <<>>, <<>>, d.dir, cs))
        IN  /\ out.last_action # <<"arrow", "failed">>
            /\ IF StepsToPlayable(active_cell, d) # {}
               THEN /\ out.active_cell = NearestPlayable(active_cell, d)
                    /\ out.last_action # <<"arrow", "edge">>
               ELSE /\ out.active_cell = active_cell
                    /\ out.last_action = <<"arrow", "edge">>
            /\ out.orientation = d.orient
            /\ out.active_slot = _resolve_active_slot(out.active_cell, d.orient, FALSE)

\* an UP arrow at (0,1) hit the edge and turned the orientation to down; a
\* RIGHT arrow from there steps over the black cell (0,2) to (0,3)
C18_Witness ==
    /\ Sending
    /\ last_action = <<"arrow", "edge">>
    /\ active_cell = <<0, 1>>
    /\ orientation = "V"
    /\ After(GridEvent("ARROW", <<>>, <<>>, <<"R","I","G","H","T">>, NoSeq)).active_cell = <<0, 3>>
    /\ After(GridEvent("ARROW", <<>>, <<>>, <<"R","I","G","H","T">>, NoSeq)).orientation = "H"
    /\ After(GridEvent("ARROW", <<>>, <<>>, <<"R","I","G","H","T">>, NoSeq)).active_slot = "v2"

\* one letter, in either case, with the letter stored for it
OneLetterChars == { [char |-> <<"A">>, letter |-> "A"], [char |-> <<"b">>, letter |-> "B"] }

\* the cell after cell in the slot's list, or cell itself at the end of the list
NextInSlot(slot, cell) ==
    LET i == CHOOSE k \in 1..Len(slots[slot]) : slots[slot][k] = cell
    IN  IF i = Len(slots[slot]) THEN cell ELSE slots[slot][i + 1]

\* C19: TYPE_CHAR with one letter on a non-given active cell stores the
\* upper-case letter in the active cell, changes no other letter, moves the
\* active cell to the next cell of the active slot (clockwise in hw) or leaves
\* it on the slot's last cell, and keeps the active slot and the orientation;
\* on a given active cell it changes no letter, no check mark, and neither
\* the active cell, the active slot nor the orientation.
C19_TypeWritesAndAdvances ==
    \A ch \in OneLetterChars : \A cs \in SeqsHere :
        LET out == After(GridEvent("TYPE_CHAR", <<>>, ch.char, <<>>, cs))
        IN  IF active_cell \notin given_cells
            THEN /\ out.grid_letters[active_cell] = ch.letter
                 /\ \A cell \in PlayableCells \ {active_cell} :
                        out.grid_letters[cell] = grid_letters[cell]
                 /\ DOMAIN out.grid_letters = PlayableCells
                 /\ out.active_cell = NextInSlot(active_slot, active_cell)
                 /\ out.active_slot = active_slot
                 /\ out.orientation = orientation
            ELSE /\ out.grid_letters = grid_letters
                 /\ out.check_marks = check_marks
                 /\ out.active_cell = active_cell
                 /\ out.active_slot = active_slot
                 /\ out.orientation = orientation

\* the focus stands on (1,1), the first cell of the hidden word, and no cell
\* is given: a typed "b" is stored as "B" and the focus goes clockwise to
\* (1,3), and with a second letter on to (3,3)
C19_Witness ==
    /\ active_slot = "hw"
    /\ active_cell = <<1, 1>>
    /\ given_cells = {}
    /\ After(GridEvent("TYPE_CHAR", <<>>, <<"b">>, <<>>, NoSeq)).grid_letters[<<1, 1>>] = "B"
    /\ After(GridEvent("TYPE_CHAR", <<>>, <<"b">>, <<>>, NoSeq)).active_cell = <<1, 3>>
    /\ reduce(After(GridEvent("TYPE_CHAR", <<>>, <<"b">>, <<>>, NoSeq)),
              GridEvent("TYPE_CHAR", <<>>, <<"A">>, <<>>, NoSeq), Truth).active_cell = <<3, 3>>

\* the cell before cell in the slot's list (cell is not the first)
PrevInSlot(slot, cell) ==
    LET i == CHOOSE k \in 1..Len(slots[slot]) : slots[slot][k] = cell
    IN  slots[slot][i - 1]

\* C20: BACKSPACE on a non-given active cell clears the cell's letter without
\* moving when it holds one; changes nothing but last_action when the cell is
\* empty and first in the active slot; and otherwise moves the active cell to
\* the previous cell of the active slot, clearing that cell's letter unless it
\* is given, when only the focus moves.  BACKSPACE changes no letter other
\* than the active cell's or that previous cell's.
C20_BackspaceClearsOrStepsBack ==
    LET out   == _on_backspace(State)
        sent  == After(Plain("BACKSPACE", NoSeq))
        first == slots[active_slot][1] = active_cell
        prev  == IF first THEN active_cell ELSE PrevInSlot(active_slot, active_cell)
    IN  /\ sent = out
        /\ DOMAIN out.grid_letters = PlayableCells
        /\ \A cell \in PlayableCells \ {active_cell, prev} :
               out.grid_letters[cell] = grid_letters[cell]
        /\ active_cell \notin given_cells =>
               IF grid_letters[active_cell] # ""
               THEN /\ out.grid_letters[active_cell] = ""
                    /\ out.active_cell = active_cell
                    /\ prev # active_cell => out.grid_letters[prev] = grid_letters[prev]
               ELSE IF first
               THEN out = [State EXCEPT !.last_action = out.last_action]
               ELSE IF prev \in given_cells
               THEN /\ out.active_cell = prev
                    /\ out = [State EXCEPT !.active_cell = prev, !.last_action = out.last_action]
               ELSE /\ out.active_cell = prev
                    /\ out.grid_letters[prev] = ""
                    /\ out.grid_letters[active_cell] = ""

\* a letter was typed at (0,1) and the focus moved on to the empty (1,1) of
\* v1: BACKSPACE steps back to (0,1) and clears it
C20_Witness ==
    /\ last_action = <<"type">>
    /\ active_slot = "v1"
    /\ active_cell = <<1, 1>>
    /\ grid_letters[<<1, 1>>] = ""
    /\ grid_letters[<<0, 1>>] # ""
    /\ _on_backspace(State).active_cell = <<0, 1>>
    /\ _on_backspace(State).grid_letters[<<0, 1>>] = ""
    /\ _on_backspace(State).last_action = <<"backspace", "move_clear">>

-----------------------------------------------------------------------------
(* Properties of the driver (AppSpec) *)

\* the posted events that carry the state identifier of an earlier state
StaleEvents == {ev \in posted : ev.state_id # 0 /\ ev.state_id < state_id}

Buttons == {"none", "load", "reset", "check_word", "check_puzzle"}

\* C15: once a load or reset has replaced the game state, a component event
\* carrying the state identifier of an earlier state is never applied: reduce
\* is not called for it, the game state is what it is without the event, and
\* no call of reduce so far was for an event with another state's identifier.
C15_StaleEventNeverApplied ==
    /\ \A ev \in StaleEvents :
           /\ ProcessComponentEvent(Session, ev).game = State
           /\ ProcessComponentEvent(Session, ev).applied = applied
           /\ \A button \in Buttons :
                  /\ main(Session, button, puzzle, ev).game = main(Session, button, puzzle, NoEvent).game
                  /\ main(Session, button, puzzle, ev).applied = applied
    /\ \A i \in 1..Len(applied) : applied[i].ev_state_id \in {0, applied[i].cur_state_id}

\* a reset made state 2, and the event posted under state 1 was then delivered:
\* it passed the event_id test, became the last event id, and was not applied
C15_Witness ==
    /\ state_id = 2
    /\ last_action = <<"init">>
    /\ applied = <<>>
    /\ last_event_id # 0
    /\ \E ev \in posted :
           /\ ev.event_id = last_event_id
           /\ ev.schema_ok
           /\ ev.state_id = 1
           /\ ev.event.type = "TYPE_CHAR"
    /\ \A cell \in PlayableCells \ given_cells : grid_letters[cell] = ""

\* C16: whatever the order and repetition of the deliveries of the events
\* posted under one state_id, an event_id is applied to the game state at
\* most once: no two calls of reduce under that state_id are for the same
\* event_id, and a delivery of an event already applied under the current
\* state_id is not applied again.
C16_EventAppliedAtMostOnce ==
    /\ \A i \in 1..Len(applied) : \A j \in 1..Len(applied) :
           (i < j /\ applied[i].event_id = applied[j].event_id)
               => applied[i].cur_state_id # applied[j].cur_state_id
    /\ \A ev \in posted :
           (/\ ev.state_id = state_id
            /\ \E i \in 1..Len(applied) :
                   /\ applied[i].event_id = ev.event_id
                   /\ applied[i].ev_state_id = state_id
                   /\ applied[i].cur_state_id = state_id)
               => /\ ProcessComponentEvent(Session, ev).applied = applied
                  /\ ProcessComponentEvent(Session, ev).game = State

-----------------------------------------------------------------------------
(* Navigation and frame properties of the reducer *)

Toggle == Plain("TOGGLE_ORIENTATION", NoSeq)

\* C21: TOGGLE_ORIENTATION changes nothing but last_action when the active
\* cell is not in both an across and a down slot; otherwise it flips the
\* orientation, keeps the active cell and makes the active slot the resolution
\* of the active cell for the new orientation; two TOGGLE_ORIENTATION events
\* in a row restore the orientation and the active cell.
C21_ToggleFlipsAtIntersections ==
    LET out   == After(Toggle)
        twice == reduce(After(Toggle), Toggle, Truth)
    IN  /\ out = _on_toggle_orientation(State)
        /\ IF InAcrossAndDown(active_cell)
           THEN /\ out.orientation = (IF orientation = "H" THEN "V" ELSE "H")
                /\ out.orientation # orientation
                /\ out.active_cell = active_cell
                /\ out.active_slot = _resolve_active_slot(active_cell, out.orientation, FALSE)
                /\ out.grid_letters = grid_letters
                /\ out.check_marks = check_marks
           ELSE out = [State EXCEPT !.last_action = out.last_action]
        /\ twice.orientation = orientation
        /\ twice.active_cell = active_cell
        /\ \A cs \in SeqsHere :
               LET sent == After(Plain("TOGGLE_ORIENTATION", cs))
               IN  /\ sent.orientation = out.orientation
                   /\ sent.active_cell = out.active_cell
                   /\ sent.active_slot = out.active_slot

\* a toggle at the intersection (1,1) has turned across/h1 into down/v1, and
\* the next toggle turns back to across/h1
C21_Witness ==
    /\ last_action = <<"toggle">>
    /\ active_cell = <<1, 1>>
    /\ orientation = "V"
    /\ active_slot = "v1"
    /\ After(Toggle).orientation = "H"
    /\ After(Toggle).active_slot = "h1"
    /\ After(Toggle).last_action = <<"toggle">>


TabTypes == {"TAB", "SHIFT_TAB"}

\* C22: after TAB or SHIFT_TAB the active cell is the first cell of the new
\* active slot, and the orientation is across when the new slot is h1 or h2,
\* down when it is v1 or v2, and the previous orientation when it is hw.
C22_TabLandsOnSlotStart ==
    \A t \in TabTypes : \A cs \in SeqsHere :
        LET out == After(Plain(t, cs))
        IN  /\ out.active_slot \in Range(SLOT_ORDER)
            /\ out.active_cell = slots[out.active_slot][1]
            /\ out.active_slot \in {"h1", "h2"} => out.orientation = "H"
            /\ out.active_slot \in {"v1", "v2"} => out.orientation = "V"
            /\ out.active_slot = "hw" => out.orientation = orientation
            /\ out.last_action = <<"tab">>

\* a TAB has moved the focus to the start of v2 with orientation down, and
\* the next TAB reaches hw keeping that orientation, while SHIFT_TAB goes
\* back to v1
C22_Witness ==
    /\ last_action = <<"tab">>
    /\ active_slot = "v2"
    /\ active_cell = slots["v2"][1]
    /\ orientation = "V"
    /\ After(Plain("TAB", NoSeq)).active_slot = "hw"
    /\ After(Plain("TAB", NoSeq)).orientation = "V"
    /\ After(Plain("SHIFT_TAB", NoSeq)).active_slot = "v1"


Right(cell) == <<cell[1], cell[2] + 1>>
Below(cell) == <<cell[1] + 1, cell[2]>>

\* C23 as stated: in every reachable state whose active slot is not hw, a
\* TYPE_CHAR that moves the active cell moves it one column to the right when
\* the orientation is across and one row down when the orientation is down.
C23_TypeAdvancesAlongOrientation ==
    \A ch \in Chars :
        LET out == After(GridEvent("TYPE_CHAR", <<>>, ch, <<>>, NoSeq))
        IN  (active_slot # "hw" /\ out.active_cell # active_cell)
            => out.active_cell = (IF orientation = "H" THEN Right(active_cell)
                                  ELSE Below(active_cell))

\* C23 (amended): in every reachable state whose active slot is not hw, a
\* TYPE_CHAR that moves the active cell moves it one column to the right when
\* the active slot is h1 or h2 and one row down when it is v1 or v2, whatever
\* the orientation; the orientation and the active slot are left as they were.
C23_TypeAdvancesAlongActiveSlot ==
    \A ch \in Chars : \A cs \in SeqsHere :
        LET out == After(GridEvent("TYPE_CHAR", <<>>, ch, <<>>, cs))
        IN  (active_slot # "hw" /\ out.active_cell # active_cell)
            => /\ out.active_cell = (IF active_slot \in {"h1", "h2"} THEN Right(active_cell)
                                     ELSE Below(active_cell))
               /\ active_slot \in {"h1", "h2", "v1", "v2"}
               /\ out.orientation = orientation
               /\ out.active_slot = active_slot

\* a letter typed at the first playable cell (0,1), where the orientation is
\* across and the only slot is v1, has moved the focus one row down to (1,1)
C23_Witness ==
    /\ last_action = <<"type">>
    /\ orientation = "H"
    /\ active_slot = "v1"
    /\ active_cell = <<1, 1>>
    /\ grid_letters[<<0, 1>>] # ""
    /\ <<0, 1>> \notin given_cells
    /\ After(GridEvent("TYPE_CHAR", <<>>, <<"A">>, <<>>, NoSeq)).active_cell = <<2, 1>>


CrossingSlots == {"h1", "h2", "v1", "v2"}

\* the resolution rule never answers hw at a playable cell
ResolutionAvoidsHiddenWord ==
    \A cell \in PlayableCells : \A o \in {"H", "V"} : \A prefer_hw \in BOOLEAN :
        _resolve_active_slot(cell, o, prefer_hw) \in CrossingSlots

\* C24: the resolution rule never returns hw for any playable cell,
\* orientation or prefer_hw, so the active slot becomes hw only through TAB or
\* SHIFT_TAB: right after every accepted CLICK_CELL, every valid ARROW (move
\* or edge) and every applied TOGGLE_ORIENTATION the active slot is one of
\* h1, h2, v1, v2.
C24_HiddenWordOnlyByTab ==
    /\ ResolutionAvoidsHiddenWord
    /\ \A id \in (IF Sending THEN CellIds ELSE {CellId(cell) : cell \in Range(slots["hw"])}) :
           LET out == After(GridEvent("CLICK_CELL", id, <<>>, <<>>, NoSeq))
           IN  out.last_action = <<"click">> => out.active_slot \in CrossingSlots
    /\ \A dir \in Dirs :
           LET out == After(GridEvent("ARROW", <<>>, <<>>, dir, NoSeq))
           IN  out.last_action # <<"arrow", "ignored">> => out.active_slot \in CrossingSlots
    /\ After(Toggle).last_action = <<"toggle">> => After(Toggle).active_slot \in CrossingSlots
    /\ \A event \in {probe \in ProbeEvents : probe.payload.client_seq = NoSeq} :
           (After(event).active_slot = "hw" /\ active_slot # "hw")
               => event.type \in TabTypes
    /\ last_action \in ({<<"click">>, <<"toggle">>}
                        \cup {<<"arrow", how>> : how \in {"left", "right", "up", "down", "edge"}})
           => active_slot \in CrossingSlots

\* the hidden word slot is active after a TAB, its first cell (1,1) has the
\* focus, and a click on that cell, an arrow and a toggle each leave hw
C24_Witness ==
    /\ active_slot = "hw"
    /\ last_action = <<"tab">>
    /\ active_cell = <<1, 1>>
    /\ After(GridEvent("CLICK_CELL", <<"1", ",", "1">>, <<>>, <<>>, NoSeq)).active_slot \in CrossingSlots
    /\ After(GridEvent("ARROW", <<>>, <<>>, <<"U","P">>, NoSeq)).active_slot = "v1"
    /\ After(Toggle).active_slot \in CrossingSlots
    /\ After(Toggle).last_action = <<"toggle">>


\* the navigation events: clicks and arrows, well formed and not, TAB,
\* SHIFT_TAB and TOGGLE_ORIENTATION
NavigationEvents(seqs) ==
    {GridEvent("CLICK_CELL", id, <<>>, <<>>, cs) : id \in CellIds, cs \in seqs}
    \cup {GridEvent("ARROW", <<>>, <<>>, dir, cs) : dir \in Dirs, cs \in seqs}
    \cup {Plain(t, cs) : t \in TabTypes \cup {"TOGGLE_ORIENTATION"}, cs \in seqs}

\* C25: CLICK_CELL, ARROW, TAB, SHIFT_TAB and TOGGLE_ORIENTATION never change
\* the letter or the check mark of any playable cell.
C25_NavigationKeepsLettersAndMarks ==
    \A event \in (IF Sending THEN NavigationEvents({NoSeq}) ELSE {})
                  \cup (NavigationEvents(SeqsHere) \cap ProbeEvents) :
        LET out == After(event)
        IN  /\ DOMAIN out.grid_letters = PlayableCells
            /\ DOMAIN out.check_marks = PlayableCells
            /\ out.grid_letters = grid_letters
            /\ out.check_marks = check_marks
            /\ out.given_cells = given_cells

\* a check has left marks on the grid, letters are present, and a click, an
\* arrow and a TAB each move the focus away from the active cell
C25_Witness ==
    /\ Sending
    /\ \E cell \in PlayableCells : check_marks[cell] = "ok"
    /\ \E cell \in PlayableCells : check_marks[cell] = "bad"
    /\ \E cell \in PlayableCells : grid_letters[cell] # ""
    /\ After(GridEvent("CLICK_CELL", <<"3", ",", "3">>, <<>>, <<>>, NoSeq)).active_cell = <<3, 3>>
    /\ After(GridEvent("ARROW", <<>>, <<>>, <<"D","O","W","N">>, NoSeq)).active_cell # active_cell
    /\ After(Plain("TAB", NoSeq)).active_cell # active_cell
    /\ active_cell # <<3, 3>>


\* out is a game state with the puzzle_id, state_id and given_cells of the
\* current one
KeepsIdentity(out) ==
    /\ DOMAIN out = GameStateFields
    /\ out.puzzle_id = puzzle_id
    /\ out.state_id = state_id
    /\ out.given_cells = given_cells

\* every reducer event produces a state of the same puzzle_id, state_id and
\* given_cells
ReducerKeepsIdentity ==
    \A event \in ProbeEvents \cup NavigationEvents({NoSeq}) : KeepsIdentity(After(event))

\* C26: between one initialization (load or reset) and the next, every
\* reducer event and the driver's clue-button slot jump produce a state
\* carrying the same puzzle_id, state_id and given_cells as their input state.
C26_IdentityKeptBetweenInitializations ==
    /\ ReducerKeepsIdentity
    /\ \A slot_id \in Range(SLOT_ORDER) : KeepsIdentity(clue_button(State, slot_id))
    /\ ~raised

-----------------------------------------------------------------------------
(* Properties of the solving player (SolveSpec) *)

\* every playable cell holds its truth letter, and REQUEST_CHECK_PUZZLE marks
\* every playable cell "ok"
SolvedAndChecked ==
    /\ \A cell \in PlayableCells : grid_letters[cell] = Truth[cell]
    /\ \A cell \in PlayableCells :
           After(Plain("REQUEST_CHECK_PUZZLE", NoSeq)).check_marks[cell] = "ok"

\* a click on any playable cell makes it the active cell
EveryCellCanBeMadeActive ==
    \A cell \in PlayableCells :
        After(GridEvent("CLICK_CELL", CellId(cell), <<>>, <<>>, NoSeq)).active_cell = cell

\* C27: the puzzle is solvable through the event interface: from the initial
\* state of a puzzle with no given cells, the player's clicks and TYPE_CHAR
\* events reach after finitely many events a state in which every playable
\* cell holds its truth letter and REQUEST_CHECK_PUZZLE marks every playable
\* cell "ok"; and in every state on the way every playable cell can be made
\* the active cell.
C27_PuzzleIsSolvable ==
    /\ []EveryCellCanBeMadeActive
    /\ <>SolvedAndChecked

\* the grid is solved after one TYPE_CHAR per playable cell and the clicks in
\* between, no cell being given
C27_Witness ==
    /\ SolvedAndChecked
    /\ given_cells = {}
    /\ last_action = <<"type">>
    /\ nevents >= Cardinality(PlayableCells)
    /\ \E cell \in PlayableCells : check_marks[cell] = "none"

====
